---- MODULE Spec2Model ----
(***************************************************************************)
(* Model of form-from-schema: the form validation engine (lib/form.go)     *)
(* and the JSON-Schema -> form converter (lib/schemas/jsonschema).         *)
(*                                                                         *)
(* Conventions                                                             *)
(*  - a Go string that the code inspects character by character (a field   *)
(*    name, a condition) is a sequence of one-character strings; the empty *)
(*    string is <<>>;                                                      *)
(*  - a Go pointer / optional is a sequence of length 0 (nil) or 1;        *)
(*  - a Go map[string]bool used as a set is a set;                         *)
(*  - an error is a record [code, path, arg]; path is the index chain of   *)
(*    the offending node, a sequence of [seg, idx] with the 0-based idx;   *)
(*  - a Go map with string keys is a function on its key set; ranging over *)
(*    it visits the keys in an order the runtime picks, so an operator     *)
(*    that ranges over a map yields the set of all results it can have.    *)
(***************************************************************************)
EXTENDS Integers, Sequences, FiniteSets, TLC

VARIABLES form, result, pc, jsonSchema, converted

vars == <<form, result, pc, jsonSchema, converted>>

-----------------------------------------------------------------------------
(* Bounds *)

\* total number of field nodes of a generated field tree
MaxNodes == 3

\* number of members a caller sets in one Validation block
MaxRules == 3

\* largest number a caller stores in a Validation member (the smallest is -1)
MaxValue == 1

\* number of schema nodes of a decoded schema tree, the root included
MaxSchemaNodes == 5

\* number of values of an enum keyword
MaxEnum == 4

\* total number of field nodes of a field tree built from typed fields
MaxTyped == 3

\* number of entries of a list-valued type keyword
MaxTypeList == 2

\* number of properties declared in a decoded document
MaxProperties == 2

\* number of names listed under required in a decoded document
MaxRequired == 2

\* number of options a caller gives one field
MaxOptions == 2

\* number of pieces of text a caller joins into a field name
MaxPieces == 2

\* number of top-level fields of a form whose method a caller sets
MaxTopLevel == 2

\* number of validation keywords of one schema node
MaxKeywords == 3

\* number of properties declared in the then and else branches of one node
MaxBranch == 2

-----------------------------------------------------------------------------
(* Generic helpers *)

Nil == <<>>

Ptr(x) == <<x>>

Range(s) == {s[i] : i \in 1..Len(s)}

-----------------------------------------------------------------------------
(* Data model: lib/form.go *)

FieldTypeText == "text"
FieldTypeEmail == "email"
FieldTypePassword == "password"
FieldTypeNumber == "number"
FieldTypeTel == "tel"
FieldTypeURL == "url"
FieldTypeDate == "date"
FieldTypeTime == "time"
FieldTypeDateTime == "datetime-local"
FieldTypeMonth == "month"
FieldTypeWeek == "week"
FieldTypeTextarea == "textarea"
FieldTypeSelect == "select"
FieldTypeCheckbox == "checkbox"
FieldTypeRadio == "radio"
FieldTypeFile == "file"
FieldTypeHidden == "hidden"
FieldTypeObject == "object"
FieldTypeArray == "array"

\* Field{Name, Type, Value, Options, Validation, Fields, Conditional}
Field(name, type, value, options, validation, fields, conditional) ==
    [name |-> name, type |-> type, value |-> value, options |-> options,
     validation |-> validation, fields |-> fields, conditional |-> conditional]

\* ConditionalField{Condition, Then, Else}
ConditionalField(condition, then, else) ==
    [condition |-> condition, then |-> then, else |-> else]

\* Form{Title, Description, Method, Fields}
Form(title, description, method, fields) ==
    [title |-> title, description |-> description, method |-> method, fields |-> fields]

-----------------------------------------------------------------------------
(* Errors *)

NoPath == <<>>

Err(code, path, arg) == [code |-> code, path |-> path, arg |-> arg]

OK == Err("ok", NoPath, <<>>)

\* fmt.Sprintf("%s.fields[%d]", path, i) and its then/else variants
Sub(path, seg, i) == Append(path, [seg |-> seg, idx |-> i])

-----------------------------------------------------------------------------
(* validateFieldName: lib/form.go *)

LowerLetters ==
    {"a","b","c","d","e","f","g","h","i","j","k","l","m",
     "n","o","p","q","r","s","t","u","v","w","x","y","z"}

UpperLetters ==
    {"A","B","C","D","E","F","G","H","I","J","K","L","M",
     "N","O","P","Q","R","S","T","U","V","W","X","Y","Z"}

Digits == {"0","1","2","3","4","5","6","7","8","9"}

\* strings.ToLower on one character
LowerOf(c) ==
    CASE c = "A" -> "a" [] c = "B" -> "b" [] c = "C" -> "c" [] c = "D" -> "d"
      [] c = "E" -> "e" [] c = "F" -> "f" [] c = "G" -> "g" [] c = "H" -> "h"
      [] c = "I" -> "i" [] c = "J" -> "j" [] c = "K" -> "k" [] c = "L" -> "l"
      [] c = "M" -> "m" [] c = "N" -> "n" [] c = "O" -> "o" [] c = "P" -> "p"
      [] c = "Q" -> "q" [] c = "R" -> "r" [] c = "S" -> "s" [] c = "T" -> "t"
      [] c = "U" -> "u" [] c = "V" -> "v" [] c = "W" -> "w" [] c = "X" -> "x"
      [] c = "Y" -> "y" [] c = "Z" -> "z" [] OTHER -> c

\* mutant: the name is looked up as it is written
ToLower_AsWritten(name) == name

\* strings.ToLower
ToLower(name) == [i \in 1..Len(name) |-> LowerOf(name[i])]

\* regexp ^[a-zA-Z_][a-zA-Z0-9_.-]*$
validNamePattern(name) ==
    /\ Len(name) >= 1
    /\ name[1] \in LowerLetters \cup UpperLetters \cup {"_"}
    /\ \A i \in 2..Len(name) :
          name[i] \in LowerLetters \cup UpperLetters \cup Digits \cup {"_", ".", "-"}

reservedNames ==
    { <<"s","u","b","m","i","t">>, <<"r","e","s","e","t">>,
      <<"b","u","t","t","o","n">>, <<"f","o","r","m">>,
      <<"f","i","e","l","d","s","e","t">>, <<"l","e","g","e","n","d">> }

\* mutant: a field without a name is rejected
validateFieldName_EmptyRejected(name, path) ==
    IF ~validNamePattern(name) THEN Err("invalid_name", path, name)
    ELSE IF ToLower(name) \in reservedNames THEN Err("reserved_name", path, name)
    ELSE OK

validateFieldName(name, path) ==
    IF name = <<>> THEN OK
    ELSE IF ~validNamePattern(name) THEN Err("invalid_name", path, name)
    ELSE IF ToLower(name) \in reservedNames THEN Err("reserved_name", path, name)
    ELSE OK

-----------------------------------------------------------------------------
(* validateFieldType: lib/form.go *)

validTypes ==
    { FieldTypeText, FieldTypeEmail, FieldTypePassword, FieldTypeNumber,
      FieldTypeTel, FieldTypeURL, FieldTypeDate, FieldTypeTime,
      FieldTypeDateTime, FieldTypeMonth, FieldTypeWeek, FieldTypeTextarea,
      FieldTypeSelect, FieldTypeCheckbox, FieldTypeRadio, FieldTypeFile,
      FieldTypeHidden, FieldTypeObject, FieldTypeArray }

validateFieldType(fieldType, path) ==
    IF fieldType \notin validTypes THEN Err("invalid_type", path, <<>>) ELSE OK

-----------------------------------------------------------------------------
(* validateFieldTypeConstraints: lib/form.go *)

\* mutant: the dynamic type is printed with the payload
Stringify_Tagged(v) == v.tag \o ":" \o v.text

\* An opaque scalar (Go any) is [tag, text]: tag "str"/"num"/"bool" and the
\* payload written as text.  fmt.Sprintf("%v", v) prints the payload and
\* drops the dynamic type.
Stringify(v) == v.text

\* index (0-based) of the first option whose stringified value was already
\* seen, or -1
FirstDuplicateOption(options) ==
    LET dups == { i \in 1..Len(options) :
                    \E j \in 1..(i-1) : Stringify(options[j].value) = Stringify(options[i].value) }
    IN IF dups = {} THEN -1
       ELSE (CHOOSE i \in dups : \A k \in dups : i <= k) - 1

TextLikeTypes ==
    { FieldTypeText, FieldTypeEmail, FieldTypePassword, FieldTypeURL,
      FieldTypeTel, FieldTypeTextarea }

DateLikeTypes ==
    { FieldTypeDate, FieldTypeTime, FieldTypeDateTime, FieldTypeMonth, FieldTypeWeek }

\* mutant: the date and time fields may carry options
validateFieldTypeConstraints_DatesFree(field, path) ==
    IF field.type \in {FieldTypeSelect, FieldTypeRadio} /\ Len(field.options) = 0
        THEN Err("requires_option", path, <<>>)
    ELSE IF field.type \in {FieldTypeSelect, FieldTypeRadio}
            /\ FirstDuplicateOption(field.options) # -1
        THEN Err("duplicate_option", path, <<>>)
    ELSE IF field.type = FieldTypeCheckbox /\ Len(field.options) > 0
            /\ FirstDuplicateOption(field.options) # -1
        THEN Err("duplicate_option", path, <<>>)
    ELSE IF field.type \in TextLikeTypes /\ Len(field.options) > 0
        THEN Err("cannot_have_options", path, <<>>)
    ELSE IF field.type = FieldTypeNumber /\ Len(field.options) > 0
        THEN Err("cannot_have_options", path, <<>>)
    ELSE OK

validateFieldTypeConstraints(field, path) ==
    IF field.type \in {FieldTypeSelect, FieldTypeRadio} /\ Len(field.options) = 0
        THEN Err("requires_option", path, <<>>)
    ELSE IF field.type \in {FieldTypeSelect, FieldTypeRadio}
            /\ FirstDuplicateOption(field.options) # -1
        THEN Err("duplicate_option", path, <<>>)
    ELSE IF field.type = FieldTypeCheckbox /\ Len(field.options) > 0
            /\ FirstDuplicateOption(field.options) # -1
        THEN Err("duplicate_option", path, <<>>)
    ELSE IF field.type \in TextLikeTypes /\ Len(field.options) > 0
        THEN Err("cannot_have_options", path, <<>>)
    ELSE IF field.type = FieldTypeNumber /\ Len(field.options) > 0
        THEN Err("cannot_have_options", path, <<>>)
    ELSE IF field.type \in DateLikeTypes /\ Len(field.options) > 0
        THEN Err("cannot_have_options", path, <<>>)
    ELSE OK

-----------------------------------------------------------------------------
(* validateValidationRules: lib/form.go *)

\* Validation{Required, MinLength, MaxLength, Min, Max, Pattern,
\* PatternError, Step, MinItems, MaxItems}; numeric members are pointers
Validation(required, minLength, maxLength, min, max, pattern, patternError, step, minItems, maxItems) ==
    [required |-> required, minLength |-> minLength, maxLength |-> maxLength,
     min |-> min, max |-> max, pattern |-> pattern, patternError |-> patternError,
     step |-> step, minItems |-> minItems, maxItems |-> maxItems]

\* &lib.Validation{}
EmptyValidation == Validation(FALSE, Nil, Nil, Nil, Nil, "", "", Nil, Nil, Nil)

\* mutant: a step of zero passes
validateRuleBounds_ZeroStep(v, path) ==
    IF v.minLength # Nil /\ v.minLength[1] < 0
        THEN Err("negative_minLength", path, <<>>)
    ELSE IF v.maxLength # Nil /\ v.maxLength[1] < 0
        THEN Err("negative_maxLength", path, <<>>)
    ELSE IF v.minLength # Nil /\ v.maxLength # Nil /\ v.minLength[1] > v.maxLength[1]
        THEN Err("minLength_gt_maxLength", path, <<>>)
    ELSE IF v.min # Nil /\ v.max # Nil /\ v.min[1] > v.max[1]
        THEN Err("min_gt_max", path, <<>>)
    ELSE IF v.minItems # Nil /\ v.minItems[1] < 0
        THEN Err("negative_minItems", path, <<>>)
    ELSE IF v.maxItems # Nil /\ v.maxItems[1] < 0
        THEN Err("negative_maxItems", path, <<>>)
    ELSE IF v.minItems # Nil /\ v.maxItems # Nil /\ v.minItems[1] > v.maxItems[1]
        THEN Err("minItems_gt_maxItems", path, <<>>)
    ELSE IF v.step # Nil /\ v.step[1] < 0
        THEN Err("step_not_positive", path, <<>>)
    ELSE OK

\* the rule-consistency half of validateValidationRules
validateRuleBounds(v, path) ==
    IF v.minLength # Nil /\ v.minLength[1] < 0
        THEN Err("negative_minLength", path, <<>>)
    ELSE IF v.maxLength # Nil /\ v.maxLength[1] < 0
        THEN Err("negative_maxLength", path, <<>>)
    ELSE IF v.minLength # Nil /\ v.maxLength # Nil /\ v.minLength[1] > v.maxLength[1]
        THEN Err("minLength_gt_maxLength", path, <<>>)
    ELSE IF v.min # Nil /\ v.max # Nil /\ v.min[1] > v.max[1]
        THEN Err("min_gt_max", path, <<>>)
    ELSE IF v.minItems # Nil /\ v.minItems[1] < 0
        THEN Err("negative_minItems", path, <<>>)
    ELSE IF v.maxItems # Nil /\ v.maxItems[1] < 0
        THEN Err("negative_maxItems", path, <<>>)
    ELSE IF v.minItems # Nil /\ v.maxItems # Nil /\ v.minItems[1] > v.maxItems[1]
        THEN Err("minItems_gt_maxItems", path, <<>>)
    ELSE IF v.step # Nil /\ v.step[1] <= 0
        THEN Err("step_not_positive", path, <<>>)
    ELSE OK

HasLengthRule(v) == v.minLength # Nil \/ v.maxLength # Nil
HasNumberRule(v) == v.min # Nil \/ v.max # Nil \/ v.step # Nil
HasItemsRule(v) == v.minItems # Nil \/ v.maxItems # Nil

\* the rules-match-the-field-type half of validateValidationRules
validateRulesMatchType(v, fieldType, path) ==
    IF fieldType \in TextLikeTypes /\ HasNumberRule(v)
        THEN Err("number_rule_not_applicable", path, <<>>)
    ELSE IF fieldType \in TextLikeTypes /\ HasItemsRule(v)
        THEN Err("items_rule_not_applicable", path, <<>>)
    ELSE IF fieldType = FieldTypeNumber /\ HasLengthRule(v)
        THEN Err("length_rule_not_applicable", path, <<>>)
    ELSE IF fieldType = FieldTypeNumber /\ HasItemsRule(v)
        THEN Err("items_rule_not_applicable", path, <<>>)
    ELSE IF fieldType = FieldTypeArray /\ HasLengthRule(v)
        THEN Err("length_rule_not_applicable", path, <<>>)
    ELSE IF fieldType = FieldTypeArray /\ HasNumberRule(v)
        THEN Err("number_rule_not_applicable", path, <<>>)
    ELSE IF fieldType \in {FieldTypeCheckbox, FieldTypeRadio, FieldTypeSelect}
            /\ HasLengthRule(v)
        THEN Err("length_rule_not_applicable", path, <<>>)
    ELSE IF fieldType \in {FieldTypeCheckbox, FieldTypeRadio, FieldTypeSelect}
            /\ HasNumberRule(v)
        THEN Err("number_rule_not_applicable", path, <<>>)
    ELSE IF fieldType \in {FieldTypeCheckbox, FieldTypeRadio, FieldTypeSelect}
            /\ HasItemsRule(v)
        THEN Err("items_rule_not_applicable", path, <<>>)
    ELSE OK

\* validation is the pointer field.Validation
validateValidationRules(validation, fieldType, path) ==
    IF validation = Nil THEN OK
    ELSE IF validateRuleBounds(validation[1], path) # OK
        THEN validateRuleBounds(validation[1], path)
    ELSE validateRulesMatchType(validation[1], fieldType, path)

-----------------------------------------------------------------------------
(* Form.validateField / Form.validateConditionalField: lib/form.go          *)
(*                                                                         *)
(* A walk step returns [err, names, visited]: the error (OK when none),    *)
(* the name table it was handed, as it is after the step, and the paths    *)
(* on which validateField has been entered so far, in order.               *)

Step(err, names, visited) == [err |-> err, names |-> names, visited |-> visited]

\* make(map[string]bool)
NewScope == {}

\* mutant: the duplicate check is skipped
IsDuplicateName_Never(name, parentFieldNames) == FALSE

\* if field.Name != "" { if parentFieldNames[field.Name] { return duplicate } }
IsDuplicateName(name, parentFieldNames) ==
    name # <<>> /\ name \in parentFieldNames

\* mutant: the name is not in the table when the conditional is checked
RegisterName_Late(name, parentFieldNames) == parentFieldNames

\* if field.Name != "" { ...; parentFieldNames[field.Name] = true }
RegisterName(name, parentFieldNames) ==
    IF name # <<>> THEN parentFieldNames \cup {name} ELSE parentFieldNames

\* mutant: only the empty condition is rejected
validateCondition_NoLookup(conditional, parentFieldNames, path) ==
    IF conditional.condition = <<>>
        THEN Err("empty_condition", path, <<>>)
    ELSE OK

\* the two guards that open validateConditionalField
validateCondition(conditional, parentFieldNames, path) ==
    IF conditional.condition = <<>>
        THEN Err("empty_condition", path, <<>>)
    ELSE IF conditional.condition \notin parentFieldNames
        THEN Err("missing_condition_field", path, conditional.condition)
    ELSE OK

RECURSIVE validateField(_, _, _, _)
RECURSIVE validateFields(_, _, _, _, _, _)
RECURSIVE validateConditionalField(_, _, _, _)
RECURSIVE validateNestedFields(_, _, _)
RECURSIVE validateConditionalAndNested(_, _, _, _)

\* mutant: the loop goes on after an error and returns the last one it met
validateFields_KeepGoing(fields, i, names, path, seg, visited) ==
    IF i > Len(fields) THEN Step(OK, names, visited)
    ELSE LET r == validateField(fields[i], names, Sub(path, seg, i - 1), visited)
             rest == validateFields(fields, i + 1, r.names, path, seg, r.visited)
         IN IF rest.err # OK THEN rest ELSE Step(r.err, rest.names, rest.visited)

\* for i, field := range fields { if err := f.validateField(&field, names, path+seg[i]) ... }
\* from the element at position i (1-based) on
validateFields(fields, i, names, path, seg, visited) ==
    IF i > Len(fields) THEN Step(OK, names, visited)
    ELSE LET r == validateField(fields[i], names, Sub(path, seg, i - 1), visited)
         IN IF r.err # OK THEN r
            ELSE validateFields(fields, i + 1, r.names, path, seg, r.visited)

\* mutant: the branches register their names in the enclosing table
validateConditionalField_SharedScope(conditional, parentFieldNames, path, visited) ==
    IF validateCondition(conditional, parentFieldNames, path) # OK
        THEN Step(validateCondition(conditional, parentFieldNames, path),
                  parentFieldNames, visited)
    ELSE LET t == validateFields(conditional.then, 1, parentFieldNames, path, "then", visited)
         IN IF t.err # OK THEN Step(t.err, parentFieldNames, t.visited)
            ELSE LET e == validateFields(conditional.else, 1, t.names, path, "else", t.visited)
                 IN Step(e.err, parentFieldNames, e.visited)

\* mutant: each branch starts from a copy of the enclosing table
validateConditionalField_InheritedScope(conditional, parentFieldNames, path, visited) ==
    IF validateCondition(conditional, parentFieldNames, path) # OK
        THEN Step(validateCondition(conditional, parentFieldNames, path),
                  parentFieldNames, visited)
    ELSE LET t == validateFields(conditional.then, 1, parentFieldNames, path, "then", visited)
         IN IF t.err # OK THEN Step(t.err, parentFieldNames, t.visited)
            ELSE LET e == validateFields(conditional.else, 1, parentFieldNames, path, "else",
                                         t.visited)
                 IN Step(e.err, parentFieldNames, e.visited)

\* the Then loop and the Else loop, each over its own new table
validateConditionalField(conditional, parentFieldNames, path, visited) ==
    IF validateCondition(conditional, parentFieldNames, path) # OK
        THEN Step(validateCondition(conditional, parentFieldNames, path),
                  parentFieldNames, visited)
    ELSE LET t == validateFields(conditional.then, 1, NewScope, path, "then", visited)
         IN IF t.err # OK THEN Step(t.err, parentFieldNames, t.visited)
            ELSE LET e == validateFields(conditional.else, 1, NewScope, path, "else", t.visited)
                 IN Step(e.err, parentFieldNames, e.visited)

\* mutant: the children of any field are walked, whatever its type
validateNestedFields_AnyType(field, path, visited) ==
    IF Len(field.fields) = 0 THEN Step(OK, NewScope, visited)
    ELSE validateFields(field.fields, 1, NewScope, path, "fields", visited)

\* if len(field.Fields) > 0 { type must be object/array; loop over a new table }
validateNestedFields(field, path, visited) ==
    IF Len(field.fields) = 0 THEN Step(OK, NewScope, visited)
    ELSE IF field.type # FieldTypeObject /\ field.type # FieldTypeArray
        THEN Step(Err("nested_not_container", path, <<>>), NewScope, visited)
    ELSE validateFields(field.fields, 1, NewScope, path, "fields", visited)

\* mutant: the nested fields are walked before the conditional block
validateNestedAndConditional(field, parentFieldNames, path, visited) ==
    LET n == validateNestedFields(field, path, visited)
    IN IF n.err # OK THEN Step(n.err, parentFieldNames, n.visited)
       ELSE IF field.conditional # Nil
           THEN validateConditionalField(field.conditional[1], parentFieldNames, path, n.visited)
       ELSE Step(OK, parentFieldNames, n.visited)

\* the tail of validateField: the conditional block, then the nested fields
validateConditionalAndNested(field, parentFieldNames, path, visited) ==
    LET c == IF field.conditional # Nil
                THEN validateConditionalField(field.conditional[1], parentFieldNames, path, visited)
                ELSE Step(OK, parentFieldNames, visited)
    IN IF c.err # OK THEN c
       ELSE LET n == validateNestedFields(field, path, c.visited)
            IN Step(n.err, parentFieldNames, n.visited)

validateField(field, parentFieldNames, path, visited) ==
    LET seen == Append(visited, path)
    IN IF validateFieldName(field.name, path) # OK
           THEN Step(validateFieldName(field.name, path), parentFieldNames, seen)
       ELSE IF IsDuplicateName(field.name, parentFieldNames)
           THEN Step(Err("duplicate_name", path, field.name), parentFieldNames, seen)
       ELSE LET names == RegisterName(field.name, parentFieldNames)
            IN IF validateFieldType(field.type, path) # OK
                   THEN Step(validateFieldType(field.type, path), names, seen)
               ELSE IF validateFieldTypeConstraints(field, path) # OK
                   THEN Step(validateFieldTypeConstraints(field, path), names, seen)
               ELSE IF validateValidationRules(field.validation, field.type, path) # OK
                   THEN Step(validateValidationRules(field.validation, field.type, path),
                             names, seen)
               ELSE validateConditionalAndNested(field, names, path, seen)

-----------------------------------------------------------------------------
(* Form.Validate: lib/form.go *)

validMethods ==
    {"GET", "POST", "PUT", "PATCH", "DELETE", "HEAD", "OPTIONS"}

\* mutant: the method is looked up as it is written
MethodUpper_AsWritten(m) == m

\* strings.ToUpper on the method names the model uses
MethodUpper(m) ==
    CASE m = "get" -> "GET" [] m = "post" -> "POST" [] m = "Post" -> "POST"
      [] m = "pUT" -> "PUT" [] m = "patch" -> "PATCH" [] m = "Delete" -> "DELETE"
      [] m = "head" -> "HEAD" [] m = "options" -> "OPTIONS"
      [] m = "trace" -> "TRACE" [] m = "gets" -> "GETS" [] m = " get" -> " GET"
      [] OTHER -> m

\* f is the pointer *Form
FormValidate(f) ==
    IF f = Nil THEN Step(Err("nil_form", NoPath, <<>>), NewScope, <<>>)
    ELSE IF Len(f[1].fields) = 0
        THEN Step(Err("no_fields", NoPath, <<>>), NewScope, <<>>)
    ELSE IF f[1].method # "" /\ MethodUpper(f[1].method) \notin validMethods
        THEN Step(Err("invalid_method", NoPath, <<>>), NewScope, <<>>)
    ELSE validateFields(f[1].fields, 1, NewScope, NoPath, "fields", <<>>)

\* the name of a list in a path: "fields", "conditional.then", "conditional.else"
SegText(seg) ==
    IF seg = "fields" THEN "fields" ELSE IF seg = "then" THEN "conditional.then"
    ELSE "conditional.else"

RECURSIVE PathText(_)
\* the path string the walk hands down: fmt.Sprintf("fields[%d]", i) at the top,
\* fmt.Sprintf("%s.fields[%d]", path, i) and "%s.conditional.then[%d]" /
\* "%s.conditional.else[%d]" below
PathText(path) ==
    IF path = NoPath THEN ""
    ELSE LET last == path[Len(path)]
             item == SegText(last.seg) \o "[" \o ToString(last.idx) \o "]"
         IN IF Len(path) = 1 THEN item
            ELSE PathText(SubSeq(path, 1, Len(path) - 1)) \o "." \o item

\* the text before the first ": " of the error message ("" when the message
\* has no path: the errors of Validate itself)
MessagePrefix(err) == PathText(err.path)

\* mutant: the table an earlier call filled is still in use
SecondCall_KeptTable(f, earlier) ==
    IF f = Nil \/ Len(f[1].fields) = 0 THEN FormValidate(f)
    ELSE validateFields(f[1].fields, 1, earlier.names, NoPath, "fields", <<>>)

\* a call of Validate made after an earlier call returned: fieldNames is made
\* anew, nothing of the earlier call is read
SecondCall(f, earlier) == FormValidate(f)

-----------------------------------------------------------------------------------------------------------------------------------------------------
(* Schema: lib/schemas/jsonschema/schema.go *)

\* Option{Label, Value}
Option(label, value) == [label |-> label, value |-> value]

\* a decoded JSON scalar
Scalar(tag, text) == [tag |-> tag, text |-> text]

\* the raw JSON of the type keyword: absent, a string, an array of strings,
\* or some other JSON value
TypeAbsent == [form |-> "absent", str |-> "", arr |-> <<>>]
TypeString(t) == [form |-> "string", str |-> t, arr |-> <<>>]
TypeList(ts) == [form |-> "array", str |-> "", arr |-> ts]
TypeOther == [form |-> "other", str |-> "", arr |-> <<>>]

\* Schema{} : the keywords the converter reads, all absent
EmptySchema ==
    [ type |-> TypeAbsent, format |-> "", enum |-> <<>>, const |-> Nil,
      properties |-> Nil, items |-> Nil, required |-> <<>>,
      minLength |-> Nil, maxLength |-> Nil, pattern |-> "",
      minimum |-> Nil, maximum |-> Nil, exclusiveMinimum |-> Nil,
      exclusiveMaximum |-> Nil, multipleOf |-> Nil,
      minItems |-> Nil, maxItems |-> Nil,
      title |-> "", description |-> "",
      if |-> Nil, then |-> Nil, else |-> Nil ]

\* Schema.GetType
GetType(s) ==
    IF s.type.form = "string"
        THEN [typeStr |-> s.type.str, typeArray |-> <<>>, hasType |-> TRUE]
    ELSE IF s.type.form = "array"
        THEN [typeStr |-> "", typeArray |-> s.type.arr, hasType |-> TRUE]
    ELSE [typeStr |-> "", typeArray |-> <<>>, hasType |-> FALSE]

-----------------------------------------------------------------------------
(* Type inference: lib/schemas/jsonschema/convert.go *)

mapJSONTypeToFieldType(jsonType, s) ==
    IF jsonType = "string" THEN
        IF s.format = "email" THEN FieldTypeEmail
        ELSE IF s.format \in { "uri", "url" } THEN FieldTypeURL
        ELSE IF s.format = "date" THEN FieldTypeDate
        ELSE IF s.format = "time" THEN FieldTypeTime
        ELSE IF s.format = "date-time" THEN FieldTypeDateTime
        ELSE IF s.format = "password" THEN FieldTypePassword
        ELSE IF s.maxLength # Nil /\ s.maxLength[1] > 100 THEN FieldTypeTextarea
        ELSE FieldTypeText
    ELSE IF jsonType \in { "number", "integer" } THEN FieldTypeNumber
    ELSE IF jsonType = "boolean" THEN FieldTypeCheckbox
    ELSE IF jsonType = "array" THEN FieldTypeArray
    ELSE IF jsonType = "object" THEN FieldTypeObject
    ELSE FieldTypeText

\* mutant: the first entry is taken, "null" or not
FirstNonNull_FirstEntry(typeArray) == typeArray[1]

\* the first entry of a type list that is not "null", or "" when none
FirstNonNull(typeArray) ==
    LET idx == { i \in 1..Len(typeArray) : typeArray[i] # "null" }
    IN IF idx = {} THEN "" ELSE typeArray[CHOOSE i \in idx : \A k \in idx : i <= k]

determineFieldType(s) ==
    LET t == GetType(s)
    IN IF ~t.hasType THEN
           IF s.properties # Nil THEN FieldTypeObject
           ELSE IF s.items # Nil THEN FieldTypeArray
           ELSE FieldTypeText
       ELSE IF Len(t.typeArray) > 0 THEN
           IF \A i \in 1..Len(t.typeArray) : t.typeArray[i] = "null" THEN FieldTypeText
           ELSE mapJSONTypeToFieldType(FirstNonNull(t.typeArray), s)
       ELSE mapJSONTypeToFieldType(t.typeStr, s)

\* mutant: the options come out in reverse enum order
convertEnumToOptions_Reversed(enum) ==
    [ i \in 1..Len(enum) |->
        Option(Stringify(enum[Len(enum) + 1 - i]), enum[Len(enum) + 1 - i]) ]

convertEnumToOptions(enum) ==
    [ i \in 1..Len(enum) |-> Option(Stringify(enum[i]), enum[i]) ]

\* mutant: const is not given the hidden type
EnumConstType_ConstIgnored(s, fieldType) ==
    IF Len(s.enum) > 0 THEN
        IF Len(convertEnumToOptions(s.enum)) <= 3 THEN FieldTypeRadio ELSE FieldTypeSelect
    ELSE fieldType

\* mutant: const is looked at before enum
EnumConstType_ConstFirst(s, fieldType) ==
    IF s.const # Nil THEN FieldTypeHidden
    ELSE IF Len(s.enum) > 0 THEN
        IF Len(convertEnumToOptions(s.enum)) <= 3 THEN FieldTypeRadio ELSE FieldTypeSelect
    ELSE fieldType

\* field.Type after the enum / const block of convertSchemaToField
EnumConstType(s, fieldType) ==
    IF Len(s.enum) > 0 THEN
        IF Len(convertEnumToOptions(s.enum)) <= 3 THEN FieldTypeRadio ELSE FieldTypeSelect
    ELSE IF s.const # Nil THEN FieldTypeHidden
    ELSE fieldType

\* field.Options after the enum / const block
EnumOptions(s) ==
    IF Len(s.enum) > 0 THEN convertEnumToOptions(s.enum) ELSE <<>>

\* field.Value after the enum / const block
ConstValue(s) ==
    IF Len(s.enum) > 0 THEN Nil ELSE s.const

-----------------------------------------------------------------------------
(* buildValidation: lib/schemas/jsonschema/convert.go *)

\* mutant: minimum is kept when both are present
MinOf_InclusiveWins(s) == IF s.minimum # Nil THEN s.minimum ELSE s.exclusiveMinimum

\* the later assignment wins: exclusiveMinimum over minimum
MinOf(s) == IF s.exclusiveMinimum # Nil THEN s.exclusiveMinimum ELSE s.minimum

MaxOf(s) == IF s.exclusiveMaximum # Nil THEN s.exclusiveMaximum ELSE s.maximum

buildValidation(s) ==
    LET v == Validation(FALSE, s.minLength, s.maxLength, MinOf(s), MaxOf(s),
                        s.pattern, IF s.pattern # "" THEN "Invalid format" ELSE "",
                        s.multipleOf, Nil, Nil)
    IN IF v.minLength = Nil /\ v.maxLength = Nil /\ v.min = Nil /\ v.max = Nil
          /\ v.pattern = "" /\ v.step = Nil
           THEN Nil
       ELSE Ptr(v)

\* mutant: the bounds are copied only into a block that is there already
WithItemBounds_ExistingOnly(validation, s) ==
    IF validation = Nil THEN Nil
    ELSE Ptr([validation[1] EXCEPT
                !.minItems = IF s.minItems # Nil THEN s.minItems ELSE @,
                !.maxItems = IF s.maxItems # Nil THEN s.maxItems ELSE @])

\* the array block: minItems / maxItems are copied, the block is made if absent
WithItemBounds(validation, s) ==
    LET v0 == IF s.minItems # Nil /\ validation = Nil THEN Ptr(EmptyValidation) ELSE validation
        v1 == IF s.minItems # Nil THEN Ptr([v0[1] EXCEPT !.minItems = s.minItems]) ELSE v0
        v2 == IF s.maxItems # Nil /\ v1 = Nil THEN Ptr(EmptyValidation) ELSE v1
    IN IF s.maxItems # Nil THEN Ptr([v2[1] EXCEPT !.maxItems = s.maxItems]) ELSE v2

\* mutant: required is set only on a block the field already has
WithRequired_ExistingOnly(field, name, required) ==
    IF name \in Range(required) /\ field.validation # Nil
        THEN [field EXCEPT !.validation = Ptr([field.validation[1] EXCEPT !.required = TRUE])]
    ELSE field

\* the required block of convertPropertiesToFields
WithRequired(field, name, required) ==
    IF name \in Range(required)
        THEN LET v == IF field.validation = Nil THEN EmptyValidation ELSE field.validation[1]
             IN [field EXCEPT !.validation = Ptr([v EXCEPT !.required = TRUE])]
    ELSE field

-----------------------------------------------------------------------------
(* The recursive conversion: lib/schemas/jsonschema/convert.go             *)
(*                                                                         *)
(* Each operator yields the set of results the function can return: one   *)
(* per order in which the runtime may visit the keys of the maps it        *)
(* ranges over.                                                            *)

\* mutant: a range may visit a key more than once
RangeOrders_Repeating(keys) == [1..Cardinality(keys) -> keys]

\* the orders in which a range over a map with these keys can visit them
RangeOrders(keys) ==
    { o \in [1..Cardinality(keys) -> keys] : \A i, j \in 1..Cardinality(keys) : i # j => o[i] # o[j] }

ItemName == <<"i", "t", "e", "m">>

RECURSIVE convertSchemaToField(_, _)
RECURSIVE convertPropertiesToFields(_, _)
RECURSIVE convertInOrder(_, _, _)
RECURSIVE buildConditionalField(_)

\* mutant: a nil property schema gives an empty text field
convertInOrder_NilKept(properties, required, keyOrder) ==
    IF keyOrder = <<>> THEN { <<>> }
    ELSE LET name == Head(keyOrder)
         IN { << WithRequired(IF f = Nil
                                 THEN Field(name, FieldTypeText, Nil, <<>>, Nil, <<>>, Nil)
                                 ELSE f[1],
                              name, required) >> \o rest :
                f \in convertSchemaToField(name, properties[name]),
                rest \in convertInOrder(properties, required, Tail(keyOrder)) }

\* the loop of convertPropertiesToFields over the keys in the order keyOrder
convertInOrder(properties, required, keyOrder) ==
    IF keyOrder = <<>> THEN { <<>> }
    ELSE LET name == Head(keyOrder)
         IN { (IF f = Nil THEN <<>> ELSE << WithRequired(f[1], name, required) >>) \o rest :
                f \in convertSchemaToField(name, properties[name]),
                rest \in convertInOrder(properties, required, Tail(keyOrder)) }

\* properties is the map, possibly nil
convertPropertiesToFields(properties, required) ==
    IF properties = Nil THEN { <<>> }
    ELSE UNION { convertInOrder(properties[1], required, o) :
                   o \in RangeOrders(DOMAIN properties[1]) }

\* the names "for name := range schema.If.Properties { ...; break }" can pick
FirstKeys(s) ==
    IF s.if[1].properties # Nil /\ DOMAIN s.if[1].properties[1] # {}
        THEN DOMAIN s.if[1].properties[1]
    ELSE { <<>> }

\* mutant: the else list is converted with the required list of then
buildConditionalField_ThenRequired(s) ==
    { IF condition = <<>> THEN Nil ELSE Ptr(ConditionalField(condition, th, el)) :
        condition \in FirstKeys(s),
        th \in (IF s.then # Nil
                   THEN convertPropertiesToFields(s.then[1].properties, s.then[1].required)
                   ELSE { <<>> }),
        el \in (IF s.else # Nil
                   THEN convertPropertiesToFields(s.else[1].properties,
                                                  IF s.then # Nil THEN s.then[1].required
                                                  ELSE s.else[1].required)
                   ELSE { <<>> }) }

\* s is a schema that has the if keyword
buildConditionalField(s) ==
    { IF condition = <<>> THEN Nil ELSE Ptr(ConditionalField(condition, th, el)) :
        condition \in FirstKeys(s),
        th \in (IF s.then # Nil
                   THEN convertPropertiesToFields(s.then[1].properties, s.then[1].required)
                   ELSE { <<>> }),
        el \in (IF s.else # Nil
                   THEN convertPropertiesToFields(s.else[1].properties, s.else[1].required)
                   ELSE { <<>> }) }

\* the nested fields of the object block and of the array block
NestedFieldSets(s, fieldType) ==
    IF fieldType = FieldTypeObject /\ s.properties # Nil
        THEN convertPropertiesToFields(s.properties, s.required)
    ELSE IF fieldType = FieldTypeArray /\ s.items # Nil
        THEN { IF item = Nil THEN <<>> ELSE << item[1] >> :
                 item \in convertSchemaToField(ItemName, s.items) }
    ELSE { <<>> }

\* schema is the pointer *Schema; the results are pointers *lib.Field
convertSchemaToField(name, schema) ==
    IF schema = Nil THEN { Nil }
    ELSE LET s == schema[1]
             fieldType == determineFieldType(s)
             validation == IF fieldType = FieldTypeArray
                              THEN WithItemBounds(buildValidation(s), s)
                              ELSE buildValidation(s)
         IN { Ptr(Field(name, EnumConstType(s, fieldType), ConstValue(s), EnumOptions(s),
                        validation, nested, conditional)) :
                nested \in NestedFieldSets(s, fieldType),
                conditional \in (IF s.if # Nil THEN buildConditionalField(s) ELSE { Nil }) }

\* mutant: an empty properties map counts as no properties
ConvertSchemaToForm_EmptyProperties(schema) ==
    IF schema = Nil THEN { [form |-> Nil, err |-> "schema cannot be nil"] }
    ELSE IF schema[1].properties # Nil /\ DOMAIN schema[1].properties[1] # {}
        THEN { [form |-> Ptr(Form(schema[1].title, schema[1].description, "POST", fields)),
                err |-> ""] :
                 fields \in convertPropertiesToFields(schema[1].properties, schema[1].required) }
    ELSE { [form |-> Ptr(Form(schema[1].title, schema[1].description, "POST",
                               IF f = Nil THEN <<>> ELSE << f[1] >>)),
            err |-> ""] :
             f \in convertSchemaToField(<<>>, schema) }

\* the results are [form, err]: the pointer *lib.Form and the error text
ConvertSchemaToForm(schema) ==
    IF schema = Nil THEN { [form |-> Nil, err |-> "schema cannot be nil"] }
    ELSE IF schema[1].properties # Nil
        THEN { [form |-> Ptr(Form(schema[1].title, schema[1].description, "POST", fields)),
                err |-> ""] :
                 fields \in convertPropertiesToFields(schema[1].properties, schema[1].required) }
    ELSE { [form |-> Ptr(Form(schema[1].title, schema[1].description, "POST",
                               IF f = Nil THEN <<>> ELSE << f[1] >>)),
            err |-> ""] :
             f \in convertSchemaToField(<<>>, schema) }

-----------------------------------------------------------------------------
(* The caller builds the field tree before it validates it: one field at   *)
(* a time, appended to the top-level list, to a field's nested Fields, or  *)
(* to the Then / Else list of a field's conditional.                       *)

ScopeNames == { <<>>, <<"a">>, <<"b">> }

\* the names are symmetric in a and b: one non-empty condition is enough
ScopeConditions == { <<>>, <<"a">> }

\* the type the caller gives a field that has n nested fields
TypeFor(n) ==
    IF n = 0 THEN FieldTypeText ELSE IF n = 1 THEN FieldTypeArray ELSE FieldTypeObject

\* the list of a field that a path segment names
ListOf(field, seg) ==
    IF seg = "fields" THEN field.fields
    ELSE IF seg = "then" THEN field.conditional[1].then
    ELSE field.conditional[1].else

\* the field with one of its lists replaced
WithList(field, seg, list) ==
    IF seg = "fields"
        THEN [field EXCEPT !.fields = list, !.type = TypeFor(Len(list))]
    ELSE IF seg = "then"
        THEN [field EXCEPT !.conditional = Ptr([field.conditional[1] EXCEPT !.then = list])]
    ELSE [field EXCEPT !.conditional = Ptr([field.conditional[1] EXCEPT !.else = list])]

HasList(field, seg) == seg = "fields" \/ field.conditional # Nil

RECURSIVE NodeCount(_)
\* the number of fields in a list, nested and conditional fields included
NodeCount(fields) ==
    IF fields = <<>> THEN 0
    ELSE LET f == fields[1]
         IN 1 + NodeCount(f.fields)
              + (IF f.conditional = Nil THEN 0
                 ELSE NodeCount(f.conditional[1].then) + NodeCount(f.conditional[1].else))
              + NodeCount(Tail(fields))

RECURSIVE NodePaths(_, _, _)
\* the paths of all fields of a list that is the list seg of the node at prefix
NodePaths(fields, prefix, seg) ==
    UNION { LET p == Sub(prefix, seg, i - 1)
                f == fields[i]
            IN  {p} \cup NodePaths(f.fields, p, "fields")
                    \cup (IF f.conditional = Nil THEN {}
                          ELSE NodePaths(f.conditional[1].then, p, "then")
                               \cup NodePaths(f.conditional[1].else, p, "else"))
          : i \in 1..Len(fields) }

RECURSIVE FieldAt(_, _)
\* the field at a path below a top-level list
FieldAt(fields, path) ==
    LET f == fields[path[1].idx + 1]
    IN IF Len(path) = 1 THEN f
       ELSE FieldAt(ListOf(f, path[2].seg), Tail(path))

RECURSIVE AppendAt(_, _, _, _)
\* the top-level list after newField is appended to list seg of the field at path
AppendAt(fields, path, seg, newField) ==
    IF path = NoPath THEN Append(fields, newField)
    ELSE LET i == path[1].idx + 1
             f == fields[i]
         IN IF Len(path) = 1
                THEN [fields EXCEPT ![i] = WithList(f, seg, Append(ListOf(f, seg), newField))]
            ELSE [fields EXCEPT ![i] =
                    WithList(f, path[2].seg,
                             AppendAt(ListOf(f, path[2].seg), Tail(path), seg, newField))]

\* the fields a caller appends: a name and possibly a conditional
NewFields ==
    { Field(name, FieldTypeText, Nil, <<>>, Nil, <<>>, cond) :
        name \in ScopeNames,
        cond \in { Nil } \cup { Ptr(ConditionalField(c, <<>>, <<>>)) : c \in ScopeConditions } }

-----------------------------------------------------------------------------
(* State machine *)

NoResult == Step(Err("none", NoPath, <<>>), NewScope, <<>>)

\* form := &lib.Form{Method: "POST", Fields: []lib.Field{}}
Init ==
    /\ form = Ptr(Form("", "", "POST", <<>>))
    /\ result = NoResult
    /\ pc = "built"
    /\ jsonSchema = Nil
    /\ converted = Nil

\* the caller appends a field somewhere in the tree
AddField ==
    /\ pc = "built"
    /\ NodeCount(form[1].fields) < MaxNodes
    /\ \E newField \in NewFields :
       \E path \in { NoPath } \cup NodePaths(form[1].fields, NoPath, "fields") :
       \E seg \in { "fields", "then", "else" } :
          /\ path = NoPath => seg = "fields"
          /\ path # NoPath => HasList(FieldAt(form[1].fields, path), seg)
          /\ form' = Ptr([form[1] EXCEPT !.fields = AppendAt(form[1].fields, path, seg, newField)])
    /\ UNCHANGED <<result, pc, jsonSchema, converted>>

\* err := form.Validate()
Validate ==
    /\ pc = "built"
    /\ result' = FormValidate(form)
    /\ pc' = "validated"
    /\ UNCHANGED <<form, jsonSchema, converted>>

Next == AddField \/ Validate

Spec == Init /\ [][Next]_vars

-----------------------------------------------------------------------------
(* Validation rules: the caller holds a form with one field of some type   *)
(* and fills in the members of its Validation block one at a time.         *)

\* select and radio fields get the option they cannot do without
OptionsFor(type) ==
    IF type \in { FieldTypeSelect, FieldTypeRadio }
        THEN << Option("x", Scalar("str", "x")) >>
    ELSE <<>>

RuleMembers ==
    { "minLength", "maxLength", "min", "max", "step", "minItems", "maxItems" }

RuleValues == (-1)..MaxValue

\* the members of a Validation block that are set
SetMembers(validation) ==
    IF validation = Nil THEN {}
    ELSE { m \in RuleMembers : validation[1][m] # Nil }

RulesInit ==
    /\ \E type \in validTypes :
          form = Ptr(Form("", "", "POST",
                     << Field(<<"a">>, type, Nil, OptionsFor(type), Nil, <<>>, Nil) >>))
    /\ result = NoResult
    /\ pc = "built"
    /\ jsonSchema = Nil
    /\ converted = Nil

\* if field.Validation == nil { field.Validation = &Validation{} }; field.Validation.M = &v
SetRule ==
    /\ pc = "built"
    /\ Cardinality(SetMembers(form[1].fields[1].validation)) < MaxRules
    /\ \E m \in RuleMembers \ SetMembers(form[1].fields[1].validation) :
       \E v \in RuleValues :
          LET old == IF form[1].fields[1].validation = Nil
                        THEN EmptyValidation ELSE form[1].fields[1].validation[1]
          IN form' = Ptr([form[1] EXCEPT
                            !.fields[1].validation = Ptr([old EXCEPT ![m] = Ptr(v)])])
    /\ UNCHANGED <<result, pc, jsonSchema, converted>>

RulesNext == SetRule \/ Validate

SpecRules == RulesInit /\ [][RulesNext]_vars

-----------------------------------------------------------------------------
(* Typed fields: the caller builds the tree from fields of several types,  *)
(* with options and Validation blocks, and leaves each field's type as it  *)
(* set it, whatever it nests under the field.                              *)

BadName == <<"1">>

ReservedName == <<"F", "o", "r", "m">>

OptionX == Option("x", Scalar("str", "x"))

\* Validation{MinLength: &lo, MaxLength: &hi}
LengthRule(lo, hi) == [EmptyValidation EXCEPT !.minLength = Ptr(lo), !.maxLength = Ptr(hi)]

\* Validation{Min: &lo}
MinRule(lo) == [EmptyValidation EXCEPT !.min = Ptr(lo)]

\* the fields a caller appends
TypedFields ==
    { Field(<<"a">>, FieldTypeText, Nil, <<>>, Nil, <<>>, Nil),
      Field(<<>>, FieldTypeText, Nil, <<>>, Nil, <<>>, Nil),
      Field(<<"a">>, FieldTypeText, Nil, <<>>, Nil, <<>>, Ptr(ConditionalField(<<"a">>, <<>>, <<>>))),
      Field(<<"b">>, FieldTypeText, Nil, <<>>, Nil, <<>>, Ptr(ConditionalField(<<"a">>, <<>>, <<>>))),
      Field(BadName, FieldTypeText, Nil, <<>>, Nil, <<>>, Nil),
      Field(ReservedName, FieldTypeText, Nil, <<>>, Nil, <<>>, Nil),
      Field(<<"b">>, "bogus", Nil, <<>>, Nil, <<>>, Nil),
      Field(<<"b">>, FieldTypeSelect, Nil, <<>>, Nil, <<>>, Nil),
      Field(<<"b">>, FieldTypeSelect, Nil, << OptionX >>, Nil, <<>>, Nil),
      Field(<<"b">>, FieldTypeRadio, Nil, << OptionX, OptionX >>, Nil, <<>>, Nil),
      Field(<<"c">>, FieldTypeText, Nil, <<>>, Ptr(LengthRule(1, 0)), <<>>, Nil),
      Field(<<"c">>, FieldTypeNumber, Nil, <<>>, Ptr(MinRule(0)), <<>>, Nil),
      Field(<<"c">>, FieldTypeObject, Nil, <<>>, Nil, <<>>, Nil) }

\* the field with one of its lists replaced
WithTypedList(field, seg, list) ==
    IF seg = "fields" THEN [field EXCEPT !.fields = list]
    ELSE IF seg = "then"
        THEN [field EXCEPT !.conditional = Ptr([field.conditional[1] EXCEPT !.then = list])]
    ELSE [field EXCEPT !.conditional = Ptr([field.conditional[1] EXCEPT !.else = list])]

RECURSIVE AppendTyped(_, _, _, _)
\* the top-level list after newField is appended to list seg of the field at path
AppendTyped(fields, path, seg, newField) ==
    IF path = NoPath THEN Append(fields, newField)
    ELSE LET i == path[1].idx + 1
             f == fields[i]
         IN IF Len(path) = 1
                THEN [fields EXCEPT ![i] = WithTypedList(f, seg, Append(ListOf(f, seg), newField))]
            ELSE [fields EXCEPT ![i] =
                    WithTypedList(f, path[2].seg,
                                  AppendTyped(ListOf(f, path[2].seg), Tail(path), seg, newField))]

\* the caller appends a typed field somewhere in the tree
AddTypedField ==
    /\ pc = "built"
    /\ NodeCount(form[1].fields) < MaxTyped
    /\ \E newField \in TypedFields :
       \E path \in { NoPath } \cup NodePaths(form[1].fields, NoPath, "fields") :
       \E seg \in { "fields", "then", "else" } :
          /\ path = NoPath => seg = "fields"
          /\ path # NoPath => HasList(FieldAt(form[1].fields, path), seg)
          /\ form' = Ptr([form[1] EXCEPT !.fields = AppendTyped(form[1].fields, path, seg, newField)])
    /\ UNCHANGED <<result, pc, jsonSchema, converted>>

\* err = form.Validate(), called once more on the same form
ValidateAgain ==
    /\ pc \in { "validated", "validated again" }
    /\ result' = SecondCall(form, result)
    /\ pc' = "validated again"
    /\ UNCHANGED <<form, jsonSchema, converted>>

FormsNext == AddTypedField \/ Validate

SpecForms == Init /\ [][FormsNext]_vars

\* the caller builds a tree, validates it and validates it again
AgainNext == AddField \/ Validate \/ ValidateAgain

SpecAgain == Init /\ [][AgainNext]_vars

-----------------------------------------------------------------------------
(* Decoded schemas: the decoder hands the converter a schema tree. A step  *)
(* of a schema path is [slot, key]: slot "prop" with the property key, or  *)
(* slot "items" / "if" / "then" / "else" with key <<>>.                    *)

PropertyKeys == { <<"a">>, <<"b">> }

SchemaStep(slot, key) == [slot |-> slot, key |-> key]

\* the pointer in a slot of a schema (nil when the slot is empty)
ChildOf(s, step) ==
    IF step.slot = "prop" THEN
        IF s.properties # Nil /\ step.key \in DOMAIN s.properties[1]
            THEN s.properties[1][step.key] ELSE Nil
    ELSE s[step.slot]

\* the schema with a pointer stored in a slot
WithChild(s, step, child) ==
    IF step.slot = "prop" THEN
        LET old == IF s.properties = Nil THEN <<>> ELSE s.properties[1]
        IN [s EXCEPT !.properties =
               Ptr([k \in DOMAIN old \cup { step.key } |->
                       IF k = step.key THEN child ELSE old[k]])]
    ELSE [s EXCEPT ![step.slot] = child]

RECURSIVE SchemaAt(_, _)
SchemaAt(s, path) ==
    IF path = <<>> THEN s ELSE SchemaAt(ChildOf(s, path[1])[1], Tail(path))

RECURSIVE ReplaceAt(_, _, _)
\* the schema s with the node at path replaced
ReplaceAt(s, path, new) ==
    IF path = <<>> THEN new
    ELSE WithChild(s, path[1], Ptr(ReplaceAt(ChildOf(s, path[1])[1], Tail(path), new)))

\* the slots of a schema that hold a node
UsedSteps(s) ==
    { SchemaStep("prop", k) : k \in (IF s.properties = Nil THEN {} ELSE DOMAIN s.properties[1]) }
    \cup { SchemaStep(slot, <<>>) : slot \in { sl \in { "items", "if", "then", "else" } : s[sl] # Nil } }

RECURSIVE SchemaPaths(_, _)
\* the paths of all nodes of a schema, the schema itself (at prefix) included
SchemaPaths(s, prefix) ==
    { prefix } \cup UNION { IF ChildOf(s, st) = Nil THEN {}
                            ELSE SchemaPaths(ChildOf(s, st)[1], Append(prefix, st))
                          : st \in UsedSteps(s) }

\* the converter reads only the properties (and required) of if / then /
\* else, and of the properties of if only the keys
IsBranch(path) == path # <<>> /\ path[Len(path)].slot \in { "if", "then", "else" }

IsConditionKey(path) == Len(path) >= 2 /\ path[Len(path) - 1].slot = "if"

\* the slots the decoder may fill at a node
OpenSteps(s, path) ==
    IF IsConditionKey(path) THEN {}
    ELSE ({ SchemaStep("prop", k) : k \in PropertyKeys }
          \cup (IF IsBranch(path) THEN {}
                ELSE { SchemaStep(slot, <<>>) : slot \in { "items", "if", "then", "else" } }))
         \ UsedSteps(s)

\* the schemas the decoder puts in a slot
NewSchemas(path, step) ==
    IF IsBranch(path) /\ path[Len(path)].slot = "if" THEN { EmptySchema }
    ELSE IF step.slot \in { "if", "then", "else" } THEN { EmptySchema }
    ELSE { EmptySchema, [EmptySchema EXCEPT !.type = TypeString("string")] }

NoConversion == [form |-> Nil, err |-> "none"]

\* jsonSchema, err := jsonschema.Parse(schema), of "{}" or of {"type": "string"}
ConvertInit ==
    /\ jsonSchema \in { Ptr(EmptySchema), Ptr([EmptySchema EXCEPT !.type = TypeString("string")]) }
    /\ converted = NoConversion
    /\ pc = "decoded"
    /\ form = Nil
    /\ result = NoResult

\* the decoded document has one more sub-schema
AddSchema ==
    /\ pc = "decoded"
    /\ Cardinality(SchemaPaths(jsonSchema[1], <<>>)) < MaxSchemaNodes
    /\ \E path \in SchemaPaths(jsonSchema[1], <<>>) :
       \E step \in OpenSteps(SchemaAt(jsonSchema[1], path), path) :
       \E new \in NewSchemas(path, step) :
          jsonSchema' = Ptr(ReplaceAt(jsonSchema[1], path,
                                      WithChild(SchemaAt(jsonSchema[1], path), step, Ptr(new))))
    /\ UNCHANGED <<form, result, pc, converted>>

\* form, err := jsonschema.ConvertSchemaToForm(jsonSchema)
Convert ==
    /\ pc = "decoded"
    /\ converted' \in ConvertSchemaToForm(jsonSchema)
    /\ pc' = "converted"
    /\ UNCHANGED <<form, result, jsonSchema>>

ConvertNext == AddSchema \/ Convert

SpecConvert == ConvertInit /\ [][ConvertNext]_vars

-----------------------------------------------------------------------------
(* Keywords of one schema node: the decoded document is one schema, given  *)
(* either as the root or as the property "n" of an object root, and the    *)
(* decoder fills in its keywords one at a time.                            *)

NodeKey == <<"n">>

Wrapped ==
    jsonSchema[1].properties # Nil /\ NodeKey \in DOMAIN jsonSchema[1].properties[1]

NodePath == IF Wrapped THEN << SchemaStep("prop", NodeKey) >> ELSE <<>>

Node == SchemaAt(jsonSchema[1], NodePath)

\* the decoded document with the node replaced
WithNode(new) == Ptr(ReplaceAt(jsonSchema[1], NodePath, new))

DeclaredTypes == { "string", "number", "object", "array" }

\* the i-th value of an enum keyword
EnumValue(i) == Scalar("num", ToString(i))

ConstScalar == Scalar("str", "c")

StringSchema == [EmptySchema EXCEPT !.type = TypeString("string")]

KindsInit ==
    /\ jsonSchema \in { Ptr(EmptySchema),
                        Ptr(WithChild(EmptySchema, SchemaStep("prop", NodeKey), Ptr(EmptySchema))) }
    /\ converted = NoConversion
    /\ pc = "decoded"
    /\ form = Nil
    /\ result = NoResult

\* "type": "<t>"
SetType ==
    /\ pc = "decoded"
    /\ Node.type = TypeAbsent
    /\ \E t \in DeclaredTypes : jsonSchema' = WithNode([Node EXCEPT !.type = TypeString(t)])
    /\ UNCHANGED <<form, result, pc, converted>>

\* "enum": [..., v]
AddEnumValue ==
    /\ pc = "decoded"
    /\ Len(Node.enum) < MaxEnum
    /\ jsonSchema' = WithNode([Node EXCEPT !.enum = Append(@, EnumValue(Len(@) + 1))])
    /\ UNCHANGED <<form, result, pc, converted>>

\* "const": "c"
SetConst ==
    /\ pc = "decoded"
    /\ Node.const = Nil
    /\ jsonSchema' = WithNode([Node EXCEPT !.const = Ptr(ConstScalar)])
    /\ UNCHANGED <<form, result, pc, converted>>

\* "properties": {}
MakeProperties ==
    /\ pc = "decoded"
    /\ Node.properties = Nil
    /\ jsonSchema' = WithNode([Node EXCEPT !.properties = Ptr(<<>>)])
    /\ UNCHANGED <<form, result, pc, converted>>

\* "properties": {"a": {"type": "string"}}
PutProperty ==
    /\ pc = "decoded"
    /\ ChildOf(Node, SchemaStep("prop", <<"a">>)) = Nil
    /\ jsonSchema' = WithNode(WithChild(Node, SchemaStep("prop", <<"a">>), Ptr(StringSchema)))
    /\ UNCHANGED <<form, result, pc, converted>>

\* "items": {"type": "string"}
SetItems ==
    /\ pc = "decoded"
    /\ Node.items = Nil
    /\ jsonSchema' = WithNode([Node EXCEPT !.items = Ptr(StringSchema)])
    /\ UNCHANGED <<form, result, pc, converted>>

KindsNext ==
    SetType \/ AddEnumValue \/ SetConst \/ MakeProperties \/ PutProperty \/ SetItems \/ Convert

SpecKinds == KindsInit /\ [][KindsNext]_vars

-----------------------------------------------------------------------------
(* The type keyword of one schema: the decoded document is a single schema  *)
(* without enum and const; the decoder fills in its type (a name or a list *)
(* of names), format and maxLength, and properties / items.                *)

TypeNames ==
    { "string", "number", "integer", "boolean", "array", "object", "null", "bogus" }

Formats ==
    { "email", "url", "uri", "date", "time", "date-time", "password", "uuid" }

MaxLengths == { 100, 101 }

TypesInit ==
    /\ jsonSchema = Ptr(EmptySchema)
    /\ converted = NoConversion
    /\ pc = "decoded"
    /\ form = Nil
    /\ result = NoResult

\* "type": "<name>"
SetTypeName ==
    /\ pc = "decoded"
    /\ Node.type = TypeAbsent
    /\ \E t \in TypeNames : jsonSchema' = WithNode([Node EXCEPT !.type = TypeString(t)])
    /\ UNCHANGED <<form, result, pc, converted>>

\* "type": []
StartTypeList ==
    /\ pc = "decoded"
    /\ Node.type = TypeAbsent
    /\ jsonSchema' = WithNode([Node EXCEPT !.type = TypeList(<<>>)])
    /\ UNCHANGED <<form, result, pc, converted>>

\* "type": [..., "<name>"]
AppendTypeName ==
    /\ pc = "decoded"
    /\ Node.type.form = "array"
    /\ Len(Node.type.arr) < MaxTypeList
    /\ \E t \in TypeNames :
          jsonSchema' = WithNode([Node EXCEPT !.type = TypeList(Append(Node.type.arr, t))])
    /\ UNCHANGED <<form, result, pc, converted>>

\* "format": "<f>"
SetFormat ==
    /\ pc = "decoded"
    /\ Node.format = ""
    /\ \E f \in Formats : jsonSchema' = WithNode([Node EXCEPT !.format = f])
    /\ UNCHANGED <<form, result, pc, converted>>

\* "maxLength": n
SetMaxLength ==
    /\ pc = "decoded"
    /\ Node.maxLength = Nil
    /\ \E n \in MaxLengths : jsonSchema' = WithNode([Node EXCEPT !.maxLength = Ptr(n)])
    /\ UNCHANGED <<form, result, pc, converted>>

TypesNext ==
    \/ SetTypeName \/ StartTypeList \/ AppendTypeName \/ SetFormat \/ SetMaxLength
    \/ MakeProperties \/ SetItems \/ Convert

SpecTypes == TypesInit /\ [][TypesNext]_vars

-----------------------------------------------------------------------------
(* Documents: the caller hands the converter a nil schema or a decoded      *)
(* document with a title and a description, whose root, then branch and    *)
(* object properties declare properties (a null value included) and list   *)
(* names under required.                                                   *)

\* title and description of the root
DocumentTexts == { << "", "" >>, << "T", "D" >> }

ObjectSchema == [EmptySchema EXCEPT !.type = TypeString("object")]

ArraySchema == [EmptySchema EXCEPT !.type = TypeString("array")]

\* the values of a declared property: null, or a schema
PropertySchemas ==
    { Nil, Ptr([StringSchema EXCEPT !.minLength = Ptr(1)]), Ptr(ObjectSchema), Ptr(ArraySchema) }

RequiredNames == { <<"a">>, <<"c">> }

\* the keys of the properties map of a schema
DeclaredKeys(s) == IF s.properties = Nil THEN {} ELSE DOMAIN s.properties[1]

RECURSIVE SumOf(_, _)
\* the sum of the values of a function over a set of arguments
SumOf(f, S) ==
    IF S = {} THEN 0
    ELSE LET x == CHOOSE y \in S : TRUE IN f[x] + SumOf(f, S \ { x })

RECURSIVE PropertyCount(_)
\* the number of properties declared in a schema, its then branch and its
\* properties
PropertyCount(schema) ==
    IF schema = Nil THEN 0
    ELSE Cardinality(DeclaredKeys(schema[1]))
         + SumOf([ k \in DeclaredKeys(schema[1]) |-> PropertyCount(schema[1].properties[1][k]) ],
                 DeclaredKeys(schema[1]))
         + PropertyCount(schema[1].then)

RECURSIVE RequiredCount(_)
\* the number of names listed under required in a schema, its then branch
\* and its properties
RequiredCount(schema) ==
    IF schema = Nil THEN 0
    ELSE Len(schema[1].required)
         + SumOf([ k \in DeclaredKeys(schema[1]) |-> RequiredCount(schema[1].properties[1][k]) ],
                 DeclaredKeys(schema[1]))
         + RequiredCount(schema[1].then)

\* the nodes whose properties the converter turns into fields: the root, a
\* then branch, a property declared as an object
PropertyScopes ==
    { path \in SchemaPaths(jsonSchema[1], <<>>) :
        \/ path = <<>>
        \/ path[Len(path)].slot = "then"
        \/ path[Len(path)].slot = "prop" /\ SchemaAt(jsonSchema[1], path).type = TypeString("object") }

\* var schema *Schema, or Parse of a document with or without title and description
DocumentInit ==
    /\ jsonSchema \in { Nil } \cup { Ptr([EmptySchema EXCEPT !.title = t[1], !.description = t[2]]) :
                                      t \in DocumentTexts }
    /\ converted = NoConversion
    /\ pc = "decoded"
    /\ form = Nil
    /\ result = NoResult

\* "properties": {} at the root
MakeEmptyProperties ==
    /\ pc = "decoded"
    /\ jsonSchema # Nil
    /\ jsonSchema[1].properties = Nil
    /\ jsonSchema' = Ptr([jsonSchema[1] EXCEPT !.properties = Ptr(<<>>)])
    /\ UNCHANGED <<form, result, pc, converted>>

\* "properties": {..., "<key>": null} or {..., "<key>": {...}}
DeclareProperty ==
    /\ pc = "decoded"
    /\ jsonSchema # Nil
    /\ PropertyCount(jsonSchema) < MaxProperties
    /\ \E path \in PropertyScopes :
       \E key \in PropertyKeys \ DeclaredKeys(SchemaAt(jsonSchema[1], path)) :
       \E child \in PropertySchemas :
          jsonSchema' = Ptr(ReplaceAt(jsonSchema[1], path,
                                      WithChild(SchemaAt(jsonSchema[1], path),
                                                SchemaStep("prop", key), child)))
    /\ UNCHANGED <<form, result, pc, converted>>

\* "required": [..., "<name>"] next to a properties keyword
Require ==
    /\ pc = "decoded"
    /\ jsonSchema # Nil
    /\ RequiredCount(jsonSchema) < MaxRequired
    /\ \E path \in PropertyScopes :
       \E name \in RequiredNames :
          /\ SchemaAt(jsonSchema[1], path).properties # Nil
          /\ jsonSchema' = Ptr(ReplaceAt(jsonSchema[1], path,
                                 [SchemaAt(jsonSchema[1], path) EXCEPT !.required = Append(@, name)]))
    /\ UNCHANGED <<form, result, pc, converted>>

\* "if": {"properties": {"a": {}}}
SetIf ==
    /\ pc = "decoded"
    /\ jsonSchema # Nil
    /\ jsonSchema[1].if = Nil
    /\ jsonSchema' = Ptr([jsonSchema[1] EXCEPT
                            !.if = Ptr(WithChild(EmptySchema, SchemaStep("prop", <<"a">>),
                                                 Ptr(EmptySchema)))])
    /\ UNCHANGED <<form, result, pc, converted>>

\* "then": {}
SetThen ==
    /\ pc = "decoded"
    /\ jsonSchema # Nil
    /\ jsonSchema[1].then = Nil
    /\ jsonSchema' = Ptr([jsonSchema[1] EXCEPT !.then = Ptr(EmptySchema)])
    /\ UNCHANGED <<form, result, pc, converted>>

DocumentNext ==
    MakeEmptyProperties \/ DeclareProperty \/ Require \/ SetIf \/ SetThen \/ Convert

SpecDocument == DocumentInit /\ [][DocumentNext]_vars

-----------------------------------------------------------------------------
(* Vocabulary of the properties *)

Top == form[1].fields

Paths == NodePaths(Top, NoPath, "fields")

Validated == pc = "validated"

Reached(p) == p \in Range(result.visited)

\* the list a field lives in, and its 1-based position there
ListAroundIn(top, p) ==
    IF Len(p) = 1 THEN top
    ELSE ListOf(FieldAt(top, SubSeq(p, 1, Len(p) - 1)), p[Len(p)].seg)

ListAround(p) == ListAroundIn(Top, p)

PosOf(p) == p[Len(p)].idx + 1

\* the non-empty names of the siblings that precede the field at p
EarlierNames(p) == { ListAround(p)[i].name : i \in 1..(PosOf(p) - 1) } \ { <<>> }

\* the field at p has a conditional whose condition is the field's own name
SelfReference(p) ==
    LET f == FieldAt(Top, p)
    IN f.name # <<>> /\ f.conditional # Nil /\ f.conditional[1].condition = f.name

\* position k of a sequence of paths, 0 when absent
IndexIn(seq, p) ==
    IF p \in Range(seq) THEN CHOOSE k \in 1..Len(seq) : seq[k] = p ELSE 0

IsPrefix(p, q) == Len(p) <= Len(q) /\ SubSeq(q, 1, Len(p)) = p

\* q lies in list seg of the field at p, at any depth
Below(p, seg, q) == Len(q) > Len(p) /\ IsPrefix(p, q) /\ q[Len(p) + 1].seg = seg

\* the error codes of the checks validateField makes before the conditional
EarlierCodes ==
    { "invalid_name", "reserved_name", "duplicate_name", "invalid_type",
      "requires_option", "duplicate_option", "cannot_have_options",
      "negative_minLength", "negative_maxLength", "minLength_gt_maxLength",
      "min_gt_max", "negative_minItems", "negative_maxItems",
      "minItems_gt_maxItems", "step_not_positive",
      "number_rule_not_applicable", "length_rule_not_applicable",
      "items_rule_not_applicable" }

ReferenceCodes == { "empty_condition", "missing_condition_field" }

-----------------------------------------------------------------------------
(* C1 *)

\* C1 as stated: every form that contains a field F with non-empty name n and
\* a conditional with condition = n, where no earlier sibling of F is named
\* n, is rejected by Validate.
C1_SelfReferenceFails ==
    Validated =>
        \A p \in Paths :
            SelfReference(p) /\ FieldAt(Top, p).name \notin EarlierNames(p)
                => result.err # OK

\* C1 (amended): a field's conditional may name the field itself. For a field
\* F with non-empty name n and condition = n, Validate never returns the
\* 'references non-existent field' error at F, because n is registered in
\* the enclosing scope before F's conditional is checked.
C1_SelfReferenceAccepted ==
    Validated =>
        \A p \in Paths :
            SelfReference(p) /\ result.err.path = p
                => result.err.code \notin ReferenceCodes

\* a form with a self-referencing field (no earlier sibling of that name)
\* that Validate accepted
C1_Witness ==
    /\ Validated
    /\ result.err = OK
    /\ \E p \in Paths :
          SelfReference(p) /\ FieldAt(Top, p).name \notin EarlierNames(p)

-----------------------------------------------------------------------------
(* C2 *)

\* the error of the nested fields of the only top-level field, walked alone
OnlyFieldNestedErr == validateNestedFields(Top[1], Sub(NoPath, "fields", 0), <<>>).err

\* the error of the conditional of the only top-level field, walked alone
\* against the table that holds the field's own name
OnlyFieldConditionalErr ==
    validateConditionalField(Top[1].conditional[1], RegisterName(Top[1].name, NewScope),
                             Sub(NoPath, "fields", 0), <<>>).err

BothViolations ==
    /\ Len(Top) = 1
    /\ Top[1].conditional # Nil
    /\ OnlyFieldNestedErr # OK
    /\ OnlyFieldConditionalErr # OK

\* C2 as stated: a field's nested children are walked before its conditional,
\* so a field with a violation in both returns the nested children's error.
C2_NestedBeforeConditional ==
    Validated /\ BothViolations => result.err = OnlyFieldNestedErr

\* C2 (amended): top-level fields are visited in list order; for each field
\* the conditional comes first (condition check, then list, else list) and
\* the nested children after it. A field with a violation in its conditional
\* and one in its nested children returns the conditional's error, and every
\* then/else field of a field is entered before any of its nested fields.
C2_ConditionalBeforeNested ==
    Validated =>
        /\ BothViolations => result.err = OnlyFieldConditionalErr
        /\ \A p \in Paths : \A q, r \in Range(result.visited) :
              /\ Below(p, "then", q) /\ Below(p, "else", r)
                    => IndexIn(result.visited, q) < IndexIn(result.visited, r)
              /\ (Below(p, "then", q) \/ Below(p, "else", q)) /\ Below(p, "fields", r)
                    => IndexIn(result.visited, q) < IndexIn(result.visited, r)
        /\ \A i, j \in 1..Len(Top) :
              i < j /\ Reached(Sub(NoPath, "fields", j - 1))
                    => /\ Reached(Sub(NoPath, "fields", i - 1))
                       /\ IndexIn(result.visited, Sub(NoPath, "fields", i - 1))
                            < IndexIn(result.visited, Sub(NoPath, "fields", j - 1))

\* a single field with a bad conditional and bad nested children was validated
C2_Witness ==
    /\ Validated
    /\ BothViolations
    /\ result.err = OnlyFieldConditionalErr
    /\ OnlyFieldConditionalErr # OnlyFieldNestedErr

-----------------------------------------------------------------------------
(* C3 *)

\* the field at p has a non-empty name that an earlier sibling also has
LaterDuplicate(p) == FieldAt(Top, p).name \in EarlierNames(p)

\* every field along the path that has nested fields is an object or array
InContainerScopes(p) ==
    \A k \in 1..(Len(p) - 1) :
        p[k + 1].seg = "fields"
            => FieldAt(Top, SubSeq(p, 1, k)).type \in { FieldTypeObject, FieldTypeArray }

\* C3: Validate fails whenever two fields of one sibling scope (top-level
\* list, an object/array field's children, a then list, an else list) share
\* a non-empty name; if the walk gets to the later of the two, the error is
\* the duplicate-name error carrying that field's path and the name; a
\* duplicate-name error always points at a non-empty name that an earlier
\* sibling has; empty names are never registered.
C3_DuplicateNamesRejected ==
    Validated =>
        /\ \A p \in Paths :
              LaterDuplicate(p) /\ InContainerScopes(p)
                => /\ result.err # OK
                   /\ Reached(p)
                        => result.err = Err("duplicate_name", p, FieldAt(Top, p).name)
        /\ result.err.code = "duplicate_name"
              => /\ result.err.arg # <<>>
                 /\ result.err.path \in Paths
                 /\ FieldAt(Top, result.err.path).name = result.err.arg
                 /\ LaterDuplicate(result.err.path)
        /\ <<>> \notin result.names

\* a duplicate inside a nested scope (below the top level) was reported
C3_Witness ==
    /\ Validated
    /\ result.err.code = "duplicate_name"
    /\ Len(result.err.path) > 1
    /\ LaterDuplicate(result.err.path)

-----------------------------------------------------------------------------
(* C4 *)

\* no sibling scope of the form holds the same non-empty name twice
NoScopeHasDuplicate == \A p \in Paths : ~LaterDuplicate(p)

\* the non-empty name of the field at q is also used at p, in another scope
SameNameElsewhere(p, q) ==
    /\ p # q
    /\ FieldAt(Top, p).name # <<>>
    /\ FieldAt(Top, p).name = FieldAt(Top, q).name

\* C4: naming scopes are independent. When no single scope holds a name
\* twice, Validate never reports a duplicate name, however often the name
\* occurs in the parent scope, in a sibling's nested scope or in the other
\* branch of the same conditional.
C4_ScopesIndependent ==
    Validated /\ NoScopeHasDuplicate => result.err.code # "duplicate_name"

\* an accepted form that uses one name in a scope and in its parent scope,
\* and one name in both branches of a conditional
C4_Witness ==
    /\ Validated
    /\ result.err = OK
    /\ \E p, q \in Paths : SameNameElsewhere(p, q) /\ IsPrefix(p, q)
    /\ \E p, q, r \in Paths :
          SameNameElsewhere(q, r) /\ Below(p, "then", q) /\ Below(p, "else", r)

-----------------------------------------------------------------------------
(* C5 *)

\* the names registered in the enclosing scope when the conditional of the
\* field at p is checked: the earlier siblings' and the field's own
RegisteredAt(p) == EarlierNames(p) \cup ({ FieldAt(Top, p).name } \ { <<>> })

HasConditional(p) == FieldAt(Top, p).conditional # Nil

ConditionOf(p) == FieldAt(Top, p).conditional[1].condition

BadCondition(p) ==
    HasConditional(p) /\ (ConditionOf(p) = <<>> \/ ConditionOf(p) \notin RegisteredAt(p))

\* the reference error the field at p must produce
ReferenceErr(p) ==
    IF ConditionOf(p) = <<>> THEN Err("empty_condition", p, <<>>)
    ELSE Err("missing_condition_field", p, ConditionOf(p))

\* C5: a conditional whose condition is empty or not registered in the
\* enclosing scope when it is checked makes Validate fail; when the walk
\* gets to that field the error is at that field, and it is the reference
\* error unless one of the field's earlier checks failed. A reference error
\* is only ever returned for such a condition, so a condition that names a
\* preceding sibling passes.
C5_ConditionMustBeRegistered ==
    Validated =>
        /\ \A p \in Paths :
              BadCondition(p) /\ InContainerScopes(p)
                => /\ result.err # OK
                   /\ Reached(p)
                        => /\ result.err.path = p
                           /\ result.err = ReferenceErr(p) \/ result.err.code \in EarlierCodes
        /\ result.err.code \in ReferenceCodes
              => /\ result.err.path \in Paths
                 /\ BadCondition(result.err.path)
                 /\ result.err = ReferenceErr(result.err.path)

\* a forward reference was rejected: the condition names a later sibling
C5_Witness ==
    /\ Validated
    /\ result.err.code = "missing_condition_field"
    /\ \E i \in (PosOf(result.err.path) + 1)..Len(ListAround(result.err.path)) :
          ListAround(result.err.path)[i].name = result.err.arg

-----------------------------------------------------------------------------
(* C6 *)

OnlyField == Top[1]

\* the Validation block of the only field carries a member that the field's
\* type does not permit
MisplacedRule ==
    /\ OnlyField.validation # Nil
    /\ \/ HasLengthRule(OnlyField.validation[1]) /\ OnlyField.type \notin TextLikeTypes
       \/ HasNumberRule(OnlyField.validation[1]) /\ OnlyField.type # FieldTypeNumber
       \/ HasItemsRule(OnlyField.validation[1]) /\ OnlyField.type # FieldTypeArray

\* C6: Validate fails for any field whose Validation block carries a member
\* that the field's type does not permit: minLength/maxLength outside the
\* text-like types, min/max/step outside number, minItems/maxItems outside
\* array, any of them on checkbox, radio or select.
C6_MisplacedRuleRejected ==
    Validated /\ MisplacedRule => result.err # OK

-----------------------------------------------------------------------------
(* Vocabulary of the converter properties *)

Converted == pc = "converted"

Out == converted.form[1].fields

\* the node is converted to a field of its own (a root that has properties
\* is not: its properties become the form's fields)
NodeConverted == Wrapped \/ Node.properties = Nil

NodeField == Out[1]

\* byte order of the characters of a name
AsciiOrder ==
    << "-", ".", "0", "1", "2", "3", "4", "5", "6", "7", "8", "9",
       "A", "B", "C", "D", "E", "F", "G", "H", "I", "J", "K", "L", "M",
       "N", "O", "P", "Q", "R", "S", "T", "U", "V", "W", "X", "Y", "Z", "_",
       "a", "b", "c", "d", "e", "f", "g", "h", "i", "j", "k", "l", "m",
       "n", "o", "p", "q", "r", "s", "t", "u", "v", "w", "x", "y", "z" >>

CharCode(c) == CHOOSE i \in 1..Len(AsciiOrder) : AsciiOrder[i] = c

\* s sorts strictly before t in lexicographic (byte) order
LexLess(s, t) ==
    \/ Len(s) < Len(t) /\ SubSeq(t, 1, Len(s)) = s
    \/ \E i \in 1..Len(s) :
          /\ i <= Len(t)
          /\ SubSeq(s, 1, i - 1) = SubSeq(t, 1, i - 1)
          /\ CharCode(s[i]) < CharCode(t[i])

LexMin(keys) == CHOOSE k \in keys : \A other \in keys \ { k } : LexLess(k, other)

-----------------------------------------------------------------------------
(* C7 *)

\* C7 as stated: a schema node with a non-null const converts to a hidden
\* field whose fixed value is the const, whatever its other keywords.
C7_ConstAlwaysHidden ==
    Converted /\ NodeConverted /\ Node.const # Nil
        => NodeField.type = FieldTypeHidden /\ NodeField.value = Node.const

\* C7 (amended): a schema node with a non-null const and no (or an empty)
\* enum converts to a hidden field whose fixed value is the const, whatever
\* its other keywords, a declared object or array type included. With a
\* non-empty enum the enum decides: the field is radio or select and its
\* fixed value stays unset.
C7_ConstHiddenUnlessEnum ==
    Converted /\ NodeConverted /\ Node.const # Nil
        => IF Len(Node.enum) = 0
              THEN NodeField.type = FieldTypeHidden /\ NodeField.value = Node.const
              ELSE NodeField.type \in { FieldTypeRadio, FieldTypeSelect }
                   /\ NodeField.value = Nil

\* a node with const, declared type object and properties became hidden
C7_Witness ==
    /\ Converted
    /\ NodeConverted
    /\ Node.const # Nil
    /\ Node.type = TypeString("object")
    /\ Node.properties # Nil
    /\ NodeField.type = FieldTypeHidden
    /\ NodeField.value = Ptr(ConstScalar)

-----------------------------------------------------------------------------
(* C8 *)

OutPaths == NodePaths(Out, NoPath, "fields")

\* C8: every field list the converter emits (top-level, object children,
\* then and else lists) is in lexicographic order of the property keys, so
\* converting a schema twice gives the same order.
C8_FieldsSortedByKey ==
    Converted /\ converted.form # Nil =>
        \A p \in OutPaths :
            PosOf(p) > 1
                => LexLess(ListAroundIn(Out, p)[PosOf(p) - 1].name, FieldAt(Out, p).name)

-----------------------------------------------------------------------------
(* C9 *)

Root == jsonSchema[1]

\* C9: a schema node with if and a non-empty if.properties converts to a
\* field whose conditional names the lexicographically smallest key of
\* if.properties (stated for the root, converted as the single field).
C9_ConditionIsSmallestKey ==
    Converted /\ Root.properties = Nil /\ Root.if # Nil
              /\ Root.if[1].properties # Nil /\ DOMAIN Root.if[1].properties[1] # {}
        => /\ Out[1].conditional # Nil
           /\ Out[1].conditional[1].condition = LexMin(DOMAIN Root.if[1].properties[1])

-----------------------------------------------------------------------------
(* C10 *)

\* C10: the converted field carries children built from properties exactly
\* when its resolved kind is object and properties is present (with at
\* least one property); a radio, select or hidden field never has children.
C10_ChildrenOnlyUnderObject ==
    Converted /\ NodeConverted =>
        /\ NodeField.type \in { FieldTypeRadio, FieldTypeSelect, FieldTypeHidden }
              => NodeField.fields = <<>>
        /\ Node.items = Nil
              => (NodeField.fields # <<>>
                    <=> /\ NodeField.type = FieldTypeObject
                        /\ Node.properties # Nil
                        /\ DOMAIN Node.properties[1] # {})

-----------------------------------------------------------------------------
(* C11 *)

\* the stringified values of a list of options are pairwise distinct
DistinctOptions(options) ==
    \A i, j \in 1..Len(options) :
        i < j => Stringify(options[i].value) # Stringify(options[j].value)

\* a name is empty, or matches the name pattern and is not reserved
NameInvariant(f) ==
    f.name # <<>> => validNamePattern(f.name) /\ ToLower(f.name) \notin reservedNames

\* children only under object / array
ChildrenInvariant(f) ==
    f.fields # <<>> => f.type \in { FieldTypeObject, FieldTypeArray }

\* the option rules per kind
OptionsInvariant(f) ==
    /\ f.type \in { FieldTypeSelect, FieldTypeRadio } => Len(f.options) >= 1
    /\ f.type \in { FieldTypeSelect, FieldTypeRadio, FieldTypeCheckbox }
          => DistinctOptions(f.options)
    /\ f.type \in TextLikeTypes \cup { FieldTypeNumber } \cup DateLikeTypes
          => f.options = <<>>

\* validation sub-fields match the kind
RulesInvariant(f) ==
    f.validation # Nil =>
        /\ HasLengthRule(f.validation[1]) => f.type \in TextLikeTypes
        /\ HasNumberRule(f.validation[1]) => f.type = FieldTypeNumber
        /\ HasItemsRule(f.validation[1]) => f.type = FieldTypeArray

\* a pointer member is absent or at least lo
AtLeast(member, lo) == member = Nil \/ member[1] >= lo

\* both members are present and the first exceeds the second
Exceeds(lower, upper) == lower # Nil /\ upper # Nil /\ lower[1] > upper[1]

\* consistent non-negative bounds and a positive step
BoundsInvariant(f) ==
    f.validation # Nil =>
        LET v == f.validation[1]
        IN /\ AtLeast(v.minLength, 0) /\ AtLeast(v.maxLength, 0)
           /\ AtLeast(v.minItems, 0) /\ AtLeast(v.maxItems, 0)
           /\ ~Exceeds(v.minLength, v.maxLength)
           /\ ~Exceeds(v.min, v.max)
           /\ ~Exceeds(v.minItems, v.maxItems)
           /\ v.step = Nil \/ v.step[1] > 0

\* the names of the fields of a list that precede position i
NamesBefore(fields, i) == { fields[j].name : j \in 1..(i - 1) } \ { <<>> }

\* the condition names a field registered in the scope: a preceding
\* sibling or the field itself
ConditionInvariant(f, earlier) ==
    f.conditional # Nil
        => f.conditional[1].condition \in earlier \cup ({ f.name } \ { <<>> })

RECURSIVE WellFormedList(_)
\* every field of a sibling scope, and of the scopes below it, satisfies the
\* invariants of the data model
WellFormedList(fields) ==
    \A i \in 1..Len(fields) :
        LET f == fields[i]
        IN /\ f.name \notin NamesBefore(fields, i)
           /\ NameInvariant(f)
           /\ f.type \in validTypes
           /\ ChildrenInvariant(f)
           /\ OptionsInvariant(f)
           /\ RulesInvariant(f)
           /\ BoundsInvariant(f)
           /\ ConditionInvariant(f, NamesBefore(fields, i))
           /\ WellFormedList(f.fields)
           /\ f.conditional # Nil
                 => WellFormedList(f.conditional[1].then) /\ WellFormedList(f.conditional[1].else)

\* the tree satisfies every invariant of the data model
WellFormed == Len(Top) >= 1 /\ WellFormedList(Top)

\* C11: for every field tree that satisfies all invariants of the data model
\* (at least one top-level field; per-scope unique names that match the
\* pattern and are not reserved; recognized kinds; children only under
\* object / array; the option rules per kind; validation sub-fields matching
\* the kind; consistent non-negative bounds and a positive step; every
\* condition naming a field registered in its scope), Validate returns
\* success.
C11_WellFormedAccepted ==
    Validated /\ WellFormed => result.err = OK

\* an accepted tree with a nested child, a conditional with a then field, and
\* a field that carries options or a Validation block
C11_Witness ==
    /\ Validated
    /\ WellFormed
    /\ result.err = OK
    /\ \E p \in Paths : FieldAt(Top, p).fields # <<>>
    /\ \E p \in Paths : HasConditional(p) /\ FieldAt(Top, p).conditional[1].then # <<>>
    /\ \E p \in Paths : FieldAt(Top, p).options # <<>> \/ FieldAt(Top, p).validation # Nil

-----------------------------------------------------------------------------
(* C12 *)

\* the violation found on entering the field f at p, whose preceding
\* siblings have the names earlier: its name, a duplicate of an earlier
\* sibling, its type, its options, its Validation block, the condition of
\* its conditional
EnterErr(f, p, earlier) ==
    LET nameErr == validateFieldName(f.name, p)
        typeErr == validateFieldType(f.type, p)
        optionsErr == validateFieldTypeConstraints(f, p)
        rulesErr == validateValidationRules(f.validation, f.type, p)
    IN IF nameErr # OK THEN nameErr
       ELSE IF f.name \in earlier THEN Err("duplicate_name", p, f.name)
       ELSE IF typeErr # OK THEN typeErr
       ELSE IF optionsErr # OK THEN optionsErr
       ELSE IF rulesErr # OK THEN rulesErr
       ELSE IF f.conditional = Nil THEN OK
       ELSE IF f.conditional[1].condition = <<>> THEN Err("empty_condition", p, <<>>)
       ELSE IF ~ConditionInvariant(f, earlier)
           THEN Err("missing_condition_field", p, f.conditional[1].condition)
       ELSE OK

\* the violation of a field that has children and is no container
ContainerErr(f, p) ==
    IF ~ChildrenInvariant(f) THEN Err("nested_not_container", p, <<>>) ELSE OK

RECURSIVE WalkEvents(_, _, _, _)
\* what a walk that never stops would do with the fields of a list from
\* position i on and with everything below them, in traversal order: enter
\* a field (enters = TRUE) and check it, walk its then list and its else
\* list, check that it may have children (enters = FALSE), walk its
\* children; each step with the violation it finds, OK when none
WalkEvents(fields, i, prefix, seg) ==
    IF i > Len(fields) THEN <<>>
    ELSE LET f == fields[i]
             p == Sub(prefix, seg, i - 1)
         IN << [path |-> p, enters |-> TRUE, err |-> EnterErr(f, p, NamesBefore(fields, i))] >>
            \o (IF f.conditional = Nil THEN <<>>
                ELSE WalkEvents(f.conditional[1].then, 1, p, "then")
                     \o WalkEvents(f.conditional[1].else, 1, p, "else"))
            \o << [path |-> p, enters |-> FALSE, err |-> ContainerErr(f, p)] >>
            \o WalkEvents(f.fields, 1, p, "fields")
            \o WalkEvents(fields, i + 1, prefix, seg)

TreeEvents == WalkEvents(Top, 1, NoPath, "fields")

\* the positions of the steps that find a violation
Failures(events) == { k \in 1..Len(events) : events[k].err # OK }

\* the position of the first violation in traversal order, 0 when none
FirstFailure(events) ==
    IF Failures(events) = {} THEN 0
    ELSE CHOOSE k \in Failures(events) : \A j \in Failures(events) : k <= j

IsEntering(event) == event.enters

\* the fields entered by the first k steps, in order
EnteredBy(events, k) ==
    LET entering == SelectSeq(SubSeq(events, 1, k), IsEntering)
    IN [ n \in 1..Len(entering) |-> entering[n].path ]

RECURSIVE IndexChain(_, _)
\* the index chain of the node at p, written from the top down: fields[i],
\* then .fields[j], .conditional.then[k] or .conditional.else[k] per level
IndexChain(p, k) ==
    IF k > Len(p) THEN ""
    ELSE (IF k = 1 THEN "" ELSE ".")
         \o (CASE p[k].seg = "fields" -> "fields"
               [] p[k].seg = "then" -> "conditional.then"
               [] p[k].seg = "else" -> "conditional.else")
         \o "[" \o ToString(p[k].idx) \o "]"
         \o IndexChain(p, k + 1)

\* C12: Validate returns exactly the first violation in traversal order and
\* stops. The error is the one of the first violation a full walk would
\* meet, the fields entered are exactly those up to that violation, in
\* order (no field after the offending node is examined, nothing is
\* aggregated), a tree without a violation is accepted after all its fields
\* were entered, and the message is prefixed with the index chain of the
\* offending node.
C12_FirstViolationOnly ==
    Validated /\ Len(Top) >= 1 =>
        LET events == TreeEvents
            first == FirstFailure(events)
        IN IF first = 0
              THEN /\ result.err = OK
                   /\ result.visited = EnteredBy(events, Len(events))
              ELSE /\ result.err = events[first].err
                   /\ result.err.path = events[first].path
                   /\ result.visited = EnteredBy(events, first)
                   /\ MessagePrefix(result.err) = IndexChain(events[first].path, 1)

\* a tree with several violations: the error is at a field below the top
\* level, and a field after it was never entered
C12_Witness ==
    /\ Validated
    /\ Cardinality(Failures(TreeEvents)) >= 2
    /\ Len(result.err.path) >= 2
    /\ result.err = TreeEvents[FirstFailure(TreeEvents)].err
    /\ \E q \in Paths : ~Reached(q)

-----------------------------------------------------------------------------
(* C13 *)

-----------------------------------------------------------------------------
(* C14 *)

\* C14: a schema node with a non-empty enum of size k converts to a field
\* with exactly k options, in enum order, option i holding the i-th enum
\* value and its stringification as label; the kind is radio when k <= 3
\* and select when k >= 4, whatever type is declared.
C14_EnumBecomesOptions ==
    Converted /\ NodeConverted /\ Len(Node.enum) > 0 =>
        /\ Len(NodeField.options) = Len(Node.enum)
        /\ \A i \in 1..Len(Node.enum) :
              /\ NodeField.options[i].value = Node.enum[i]
              /\ NodeField.options[i].label = Node.enum[i].text
        /\ Len(Node.enum) <= 3 => NodeField.type = FieldTypeRadio
        /\ Len(Node.enum) >= 4 => NodeField.type = FieldTypeSelect

\* an enum of four values on a node declared as an object became a select
\* with four options
C14_Witness ==
    /\ Converted
    /\ NodeConverted
    /\ Len(Node.enum) = 4
    /\ Node.type = TypeString("object")
    /\ NodeField.type = FieldTypeSelect
    /\ Len(NodeField.options) = 4
    /\ NodeField.options[4].label = "4"

-----------------------------------------------------------------------------
(* C15 *)

\* the kind the declared type alone gives, for a node without format and
\* maxLength: the type name, or the shape of the node when no type is given
DeclaredKind(s) ==
    IF s.type = TypeString("string") THEN FieldTypeText
    ELSE IF s.type = TypeString("number") THEN FieldTypeNumber
    ELSE IF s.type = TypeString("object") THEN FieldTypeObject
    ELSE IF s.type = TypeString("array") THEN FieldTypeArray
    ELSE IF s.properties # Nil THEN FieldTypeObject
    ELSE IF s.items # Nil THEN FieldTypeArray
    ELSE FieldTypeText

\* C15: kind inference follows a fixed precedence and yields exactly one
\* kind: a non-empty enum decides (radio / select) even when const is set or
\* the declared type is object / array; otherwise a non-null const gives
\* hidden even when the declared type is object / array; only when neither
\* applies the declared type (or the no-type fallback) is used.
C15_KindPrecedence ==
    Converted /\ NodeConverted =>
        /\ NodeField.type \in validTypes
        /\ NodeField.type =
              IF Len(Node.enum) > 0
                  THEN (IF Len(Node.enum) <= 3 THEN FieldTypeRadio ELSE FieldTypeSelect)
              ELSE IF Node.const # Nil THEN FieldTypeHidden
              ELSE DeclaredKind(Node)

\* a node with an enum, a const and the declared type array became a radio
C15_Witness ==
    /\ Converted
    /\ NodeConverted
    /\ Len(Node.enum) > 0
    /\ Node.const # Nil
    /\ Node.type = TypeString("array")
    /\ NodeField.type = FieldTypeRadio

-----------------------------------------------------------------------------
(* C16 *)

\* the kind a format gives a string, "" when the format gives none
FormatKind(format) ==
    CASE format = "email" -> FieldTypeEmail
      [] format = "url" -> FieldTypeURL
      [] format = "uri" -> FieldTypeURL
      [] format = "date" -> FieldTypeDate
      [] format = "time" -> FieldTypeTime
      [] format = "date-time" -> FieldTypeDateTime
      [] format = "password" -> FieldTypePassword
      [] OTHER -> ""

\* the kind of a resolved type name
NameKind(name, s) ==
    CASE name \in { "number", "integer" } -> FieldTypeNumber
      [] name = "boolean" -> FieldTypeCheckbox
      [] name = "array" -> FieldTypeArray
      [] name = "object" -> FieldTypeObject
      [] name = "string" ->
            IF FormatKind(s.format) # "" THEN FormatKind(s.format)
            ELSE IF s.maxLength # Nil /\ s.maxLength[1] > 100 THEN FieldTypeTextarea
            ELSE FieldTypeText
      [] OTHER -> FieldTypeText

\* the entries of a type list that are not "null", in list order
NonNullEntries(list) ==
    LET NotNull(t) == t # "null" IN SelectSeq(list, NotNull)

\* the reference for a node with neither enum nor const
ReferenceKind(s) ==
    IF s.type.form = "array" THEN
        IF NonNullEntries(s.type.arr) = <<>> THEN FieldTypeText
        ELSE NameKind(Head(NonNullEntries(s.type.arr)), s)
    ELSE IF s.type.form = "string" THEN NameKind(s.type.str, s)
    ELSE IF s.properties # Nil THEN FieldTypeObject
    ELSE IF s.items # Nil THEN FieldTypeArray
    ELSE FieldTypeText

-----------------------------------------------------------------------------
(* C17 *)

\* the keys of a schema's properties whose value is a schema, not null
NonNullKeys(s) == { k \in DeclaredKeys(s) : s.properties[1][k] # Nil }

\* the names of the fields of a list
FieldNames(fields) == { fields[i].name : i \in 1..Len(fields) }

\* C17: converting a non-null root gives a Form whose title and description
\* are the root's, whose method is the default "POST", and whose field list
\* is the conversion of the root's properties (one field per non-null
\* property, named by its key) when properties is present, and otherwise
\* exactly one field with the empty name, the conversion of the root itself.
C17_FormFromRoot ==
    Converted /\ jsonSchema # Nil =>
        /\ converted.form # Nil
        /\ converted.form[1].title = Root.title
        /\ converted.form[1].description = Root.description
        /\ converted.form[1].method = "POST"
        /\ IF Root.properties # Nil
              THEN /\ Len(Out) = Cardinality(NonNullKeys(Root))
                   /\ FieldNames(Out) = NonNullKeys(Root)
                   /\ \A i \in 1..Len(Out) :
                         Out[i] \in { WithRequired(f[1], Out[i].name, Root.required) :
                                        f \in convertSchemaToField(Out[i].name,
                                                                   Root.properties[1][Out[i].name]) }
              ELSE /\ Len(Out) = 1
                   /\ Out[1].name = <<>>
                   /\ Ptr(Out[1]) \in convertSchemaToField(<<>>, jsonSchema)

\* a root with title, description and an empty properties map gave a form
\* with these texts and no field
C17_Witness ==
    /\ Converted
    /\ jsonSchema # Nil
    /\ Root.title = "T"
    /\ Root.properties = Ptr(<<>>)
    /\ converted.form # Nil
    /\ converted.form[1].title = "T"
    /\ converted.form[1].description = "D"
    /\ Out = <<>>

-----------------------------------------------------------------------------
(* C18 *)

RECURSIVE ListOmitsNull(_, _)
RECURSIVE FieldOmitsNull(_, _)

\* the fields made of the properties of s are those of the non-null
\* properties, one each, and so on below them
ListOmitsNull(fields, s) ==
    /\ Len(fields) = Cardinality(NonNullKeys(s))
    /\ FieldNames(fields) = NonNullKeys(s)
    /\ \A i \in 1..Len(fields) :
          FieldOmitsNull(fields[i], s.properties[1][fields[i].name][1])

\* the field made of s has children and branch fields only for the non-null
\* sub-schemas of s
FieldOmitsNull(f, s) ==
    /\ f.type = FieldTypeObject /\ s.properties # Nil => ListOmitsNull(f.fields, s)
    /\ f.type = FieldTypeArray /\ s.items = Nil => f.fields = <<>>
    /\ f.conditional # Nil
          => /\ IF s.then = Nil THEN f.conditional[1].then = <<>>
                ELSE ListOmitsNull(f.conditional[1].then, s.then[1])
             /\ IF s.else = Nil THEN f.conditional[1].else = <<>>
                ELSE ListOmitsNull(f.conditional[1].else, s.else[1])

\* a property map somewhere in the schema holds a null value
RECURSIVE HasNullProperty(_)
HasNullProperty(schema) ==
    /\ schema # Nil
    /\ \/ \E k \in DeclaredKeys(schema[1]) :
             schema[1].properties[1][k] = Nil \/ HasNullProperty(schema[1].properties[1][k])
       \/ HasNullProperty(schema[1].then)

\* C18: the converter returns an error only for a null root ('schema cannot
\* be nil', no Form); a null sub-schema anywhere else (a null property
\* value, null items, null then / else) gives no field and no error, so the
\* conversion of every non-null root succeeds.
C18_OnlyNilRootFails ==
    Converted =>
        /\ jsonSchema = Nil => converted = [form |-> Nil, err |-> "schema cannot be nil"]
        /\ jsonSchema # Nil
              => /\ converted.err = ""
                 /\ converted.form # Nil
                 /\ IF Root.properties # Nil THEN ListOmitsNull(Out, Root)
                    ELSE Len(Out) = 1 /\ FieldOmitsNull(Out[1], Root)

\* an object property whose only property is null became a field without
\* children
C18_Witness ==
    /\ Converted
    /\ jsonSchema # Nil
    /\ converted.err = ""
    /\ \E k \in NonNullKeys(Root) :
          /\ Root.properties[1][k][1].type = TypeString("object")
          /\ \E n \in DeclaredKeys(Root.properties[1][k][1]) :
                Root.properties[1][k][1].properties[1][n] = Nil
          /\ Len(Out) = 1
          /\ Out[1].name = k
          /\ Out[1].fields = <<>>

-----------------------------------------------------------------------------
(* C19 *)

RECURSIVE ListRequired(_, _)
RECURSIVE BelowRequired(_, _)

\* the fields made of the properties of s carry required exactly for the
\* names s lists, in a block made for it when the property has no
\* validation keyword, and no field exists for a name that is not a property
ListRequired(fields, s) ==
    \A i \in 1..Len(fields) :
        LET f == fields[i]
            listed == f.name \in Range(s.required)
        IN /\ f.name \in DeclaredKeys(s)
           /\ (f.validation # Nil /\ f.validation[1].required) <=> listed
           /\ LET own == s.properties[1][f.name][1]
              IN /\ own.minLength = Nil /\ listed
                    => f.validation = Ptr([EmptyValidation EXCEPT !.required = TRUE])
                 /\ own.minLength = Nil /\ ~listed => f.validation = Nil
                 /\ own.minLength # Nil
                    => f.validation # Nil /\ f.validation[1].minLength = own.minLength
                 /\ BelowRequired(f, own)

\* the same for the properties below the field made of s
BelowRequired(f, s) ==
    /\ f.type = FieldTypeObject /\ s.properties # Nil => ListRequired(f.fields, s)
    /\ f.conditional # Nil /\ s.then # Nil => ListRequired(f.conditional[1].then, s.then[1])

\* C19: when properties are converted to fields, a field has a Validation
\* block with required = true if and only if its property name is listed in
\* the enclosing schema's required; the block is created when the
\* property's own keywords produced none, and a name in required that is not
\* a declared property produces no field.
C19_RequiredFromEnclosing ==
    Converted /\ jsonSchema # Nil =>
        IF Root.properties # Nil THEN ListRequired(Out, Root)
        ELSE BelowRequired(Out[1], Root)

\* required lists a property without validation keywords and a name that is
\* no property: one field, with a block that holds only required
C19_Witness ==
    /\ Converted
    /\ jsonSchema # Nil
    /\ Root.required = << <<"a">>, <<"c">> >>
    /\ DeclaredKeys(Root) = { <<"a">> }
    /\ Len(Out) = 1
    /\ Out[1].name = <<"a">>
    /\ Out[1].validation = Ptr([EmptyValidation EXCEPT !.required = TRUE])

-----------------------------------------------------------------------------
(* C20 *)

\* the inconsistent bounds of a Validation block, each by the error that
\* names it
BoundViolations(v) ==
    { c \in { "negative_minLength", "negative_maxLength", "minLength_gt_maxLength",
              "min_gt_max", "negative_minItems", "negative_maxItems",
              "minItems_gt_maxItems", "step_not_positive" } :
        \/ c = "negative_minLength" /\ ~AtLeast(v.minLength, 0)
        \/ c = "negative_maxLength" /\ ~AtLeast(v.maxLength, 0)
        \/ c = "minLength_gt_maxLength" /\ Exceeds(v.minLength, v.maxLength)
        \/ c = "min_gt_max" /\ Exceeds(v.min, v.max)
        \/ c = "negative_minItems" /\ ~AtLeast(v.minItems, 0)
        \/ c = "negative_maxItems" /\ ~AtLeast(v.maxItems, 0)
        \/ c = "minItems_gt_maxItems" /\ Exceeds(v.minItems, v.maxItems)
        \/ c = "step_not_positive" /\ v.step # Nil /\ v.step[1] <= 0 }

\* C20: Validate fails for any Validation block with minLength > maxLength,
\* min > max or minItems > maxItems (both members present), with a negative
\* minLength, maxLength, minItems or maxItems, or with step <= 0, whatever
\* the kind of the field; the field being otherwise in order, the error is
\* at that field and names one of the bounds that are violated (the one,
\* when a single bound is).
C20_InconsistentBoundsRejected ==
    Validated /\ OnlyField.validation # Nil
              /\ BoundViolations(OnlyField.validation[1]) # {}
        => /\ result.err # OK
           /\ result.err.path = Sub(NoPath, "fields", 0)
           /\ result.err.code \in BoundViolations(OnlyField.validation[1])

\* a date field, to which no rule of the block is matched, was rejected for
\* a step of zero
C20_Witness ==
    /\ Validated
    /\ OnlyField.type = FieldTypeDate
    /\ OnlyField.validation # Nil
    /\ OnlyField.validation[1].step = Ptr(0)
    /\ result.err = Err("step_not_positive", Sub(NoPath, "fields", 0), <<>>)

-----------------------------------------------------------------------------
(* Options: the caller holds a form with one field of some type and        *)
(* appends options to it one at a time.                                    *)

\* the values a caller stores in Option.Value: the number 1, the string "1"
\* and the string "x"
OptionValues == { Scalar("num", "1"), Scalar("str", "1"), Scalar("str", "x") }

OptionsInit ==
    /\ \E type \in validTypes :
          form = Ptr(Form("", "", "POST",
                     << Field(<<"a">>, type, Nil, <<>>, Nil, <<>>, Nil) >>))
    /\ result = NoResult
    /\ pc = "built"
    /\ jsonSchema = Nil
    /\ converted = Nil

\* field.Options = append(field.Options, Option{Label: ..., Value: v})
AddOption ==
    /\ pc = "built"
    /\ Len(form[1].fields[1].options) < MaxOptions
    /\ \E v \in OptionValues :
          form' = Ptr([form[1] EXCEPT
                         !.fields[1].options = Append(@, Option(v.text, v))])
    /\ UNCHANGED <<result, pc, jsonSchema, converted>>

OptionsNext == AddOption \/ Validate

SpecOptions == OptionsInit /\ [][OptionsNext]_vars

-----------------------------------------------------------------------------
(* C21 *)

\* two options of a list print the same text
SameTextTwice(options) ==
    \E i, j \in 1..Len(options) : i < j /\ options[i].value.text = options[j].value.text

\* C21: Validate fails for a select or radio field with zero options, and
\* for a select, radio or checkbox field in which two options have equal
\* stringified values (the number 1 and the string "1" count as duplicates);
\* a checkbox with no options is accepted.
C21_OptionsOfChoiceFields ==
    Validated =>
        /\ OnlyField.type \in { FieldTypeSelect, FieldTypeRadio } /\ OnlyField.options = <<>>
              => result.err = Err("requires_option", Sub(NoPath, "fields", 0), <<>>)
        /\ OnlyField.type \in { FieldTypeSelect, FieldTypeRadio, FieldTypeCheckbox }
              /\ SameTextTwice(OnlyField.options)
              => result.err = Err("duplicate_option", Sub(NoPath, "fields", 0), <<>>)
        /\ OnlyField.type = FieldTypeCheckbox /\ OnlyField.options = <<>>
              => result.err = OK

\* a checkbox whose options are the number 1 and the string "1" was rejected
C21_Witness ==
    /\ Validated
    /\ OnlyField.type = FieldTypeCheckbox
    /\ Len(OnlyField.options) = 2
    /\ OnlyField.options[1].value = Scalar("num", "1")
    /\ OnlyField.options[2].value = Scalar("str", "1")
    /\ result.err.code = "duplicate_option"

-----------------------------------------------------------------------------
(* C22 *)

\* C22: Validate fails for any field that carries one or more options while
\* its kind is text-like (text, email, password, url, tel, textarea), number,
\* or date-like (date, time, datetime, month, week).
C22_NoOptionsOnPlainFields ==
    Validated /\ OnlyField.options # <<>>
              /\ OnlyField.type \in { "text", "email", "password", "url", "tel", "textarea",
                                      "number",
                                      "date", "time", "datetime-local", "month", "week" }
        => result.err = Err("cannot_have_options", Sub(NoPath, "fields", 0), <<>>)

\* a week field with one option was rejected
C22_Witness ==
    /\ Validated
    /\ OnlyField.type = FieldTypeWeek
    /\ Len(OnlyField.options) = 1
    /\ result.err.code = "cannot_have_options"

-----------------------------------------------------------------------------
(* C23 *)

RECURSIVE FieldsBelow(_)
\* the fields of a list and of the lists below it
FieldsBelow(fields) ==
    UNION { { fields[i] } \cup FieldsBelow(fields[i].fields)
                \cup (IF fields[i].conditional = Nil THEN {}
                      ELSE FieldsBelow(fields[i].conditional[1].then)
                           \cup FieldsBelow(fields[i].conditional[1].else))
            : i \in 1..Len(fields) }

\* the field has a nested child and is neither an object nor an array
ChildrenMisplaced(f) == f.fields # <<>> /\ f.type \notin { "object", "array" }

\* the kind of the field is none of the 19
KindUnknown(f) ==
    f.type \notin { "text", "email", "password", "number", "tel", "url", "date", "time",
                    "datetime-local", "month", "week", "textarea", "select", "checkbox",
                    "radio", "file", "hidden", "object", "array" }

IsContainer(f) == f.type \in { "object", "array" }

-----------------------------------------------------------------------------
(* Names: the caller holds a form with one field whose name it puts        *)
(* together from pieces of text; the field is at the top level, the child  *)
(* of an object, or in the then / else list of a conditional.              *)

NamePieces ==
    { <<"a">>, <<"Z">>, <<"_">>, <<"1">>, <<".">>, <<"-">>, <<" ">>,
      <<"S","u","b","m","i","t">>, <<"R","E","S","E","T">>, <<"f","o","r","m">>,
      <<"b","u","t","t","o","N">>, <<"F","i","e","l","d","s","e","t">>,
      <<"l","e","g","e","n","d">> }

NameScopes == { "top", "fields", "then", "else" }

HostName == <<"h">>

\* the top-level list that holds the field called name in the given scope
NamedIn(scope, name) ==
    LET named == Field(name, FieldTypeText, Nil, <<>>, Nil, <<>>, Nil)
    IN IF scope = "top" THEN << named >>
       ELSE IF scope = "fields"
           THEN << Field(HostName, FieldTypeObject, Nil, <<>>, Nil, << named >>, Nil) >>
       ELSE IF scope = "then"
           THEN << Field(HostName, FieldTypeText, Nil, <<>>, Nil, <<>>,
                         Ptr(ConditionalField(HostName, << named >>, <<>>))) >>
       ELSE << Field(HostName, FieldTypeText, Nil, <<>>, Nil, <<>>,
                     Ptr(ConditionalField(HostName, <<>>, << named >>))) >>

\* the scope the named field is in
NamedScope ==
    IF form[1].fields[1].fields # <<>> THEN "fields"
    ELSE IF form[1].fields[1].conditional = Nil THEN "top"
    ELSE IF form[1].fields[1].conditional[1].then # <<>> THEN "then"
    ELSE "else"

\* the path of the named field
NamedPath ==
    IF NamedScope = "top" THEN Sub(NoPath, "fields", 0)
    ELSE Sub(Sub(NoPath, "fields", 0), NamedScope, 0)

NamedField == FieldAt(form[1].fields, NamedPath)

NamesInit ==
    /\ \E scope \in NameScopes : form = Ptr(Form("", "", "POST", NamedIn(scope, <<>>)))
    /\ result = NoResult
    /\ pc = "built"
    /\ jsonSchema = Nil
    /\ converted = Nil

RECURSIVE Join(_)
\* strings.Join(pieces, "")
Join(pieces) == IF pieces = <<>> THEN <<>> ELSE Head(pieces) \o Join(Tail(pieces))

\* field.Name = strings.Join(pieces, "")
SetName ==
    /\ pc = "built"
    /\ NamedField.name = <<>>
    /\ \E k \in 1..MaxPieces : \E pieces \in [1..k -> NamePieces] :
          form' = Ptr(Form("", "", "POST", NamedIn(NamedScope, Join(pieces))))
    /\ UNCHANGED <<result, pc, jsonSchema, converted>>

NamesNext == SetName \/ Validate

SpecNames == NamesInit /\ [][NamesNext]_vars

-----------------------------------------------------------------------------
(* C24 *)

Alphabet == <<"a","b","c","d","e","f","g","h","i","j","k","l","m",
              "n","o","p","q","r","s","t","u","v","w","x","y","z">>

Capitals == <<"A","B","C","D","E","F","G","H","I","J","K","L","M",
              "N","O","P","Q","R","S","T","U","V","W","X","Y","Z">>

IsLetter(c) == \E k \in 1..26 : c = Alphabet[k] \/ c = Capitals[k]

IsDigit(c) == c \in { "0", "1", "2", "3", "4", "5", "6", "7", "8", "9" }

\* ^[A-Za-z_][A-Za-z0-9_.-]*$
MatchesNamePattern(name) ==
    /\ name # <<>>
    /\ IsLetter(name[1]) \/ name[1] = "_"
    /\ \A i \in 2..Len(name) : IsLetter(name[i]) \/ IsDigit(name[i]) \/ name[i] \in { "_", ".", "-" }

\* the name is the lower-case word, whatever the case of its letters
SpellsWord(name, word) ==
    /\ Len(name) = Len(word)
    /\ \A i \in 1..Len(name) :
          \E k \in 1..26 : word[i] = Alphabet[k] /\ name[i] \in { Alphabet[k], Capitals[k] }

ReservedWords ==
    { <<"s","u","b","m","i","t">>, <<"r","e","s","e","t">>, <<"b","u","t","t","o","n">>,
      <<"f","o","r","m">>, <<"f","i","e","l","d","s","e","t">>, <<"l","e","g","e","n","d">> }

IsReserved(name) == \E word \in ReservedWords : SpellsWord(name, word)

\* C24: every non-empty field name that Validate accepts, in every scope,
\* matches ^[A-Za-z_][A-Za-z0-9_.-]*$ and is not, compared
\* case-insensitively, one of submit, reset, button, form, fieldset, legend
\* ("Submit" and "RESET" are rejected as reserved); an empty name is accepted
\* without either check. A name that fails the pattern is rejected as
\* invalid, one that passes it and is reserved as reserved, at the field
\* that carries it.
C24_AcceptedNamesAreValid ==
    Validated =>
        /\ result.err = OK /\ NamedField.name # <<>>
              => MatchesNamePattern(NamedField.name) /\ ~IsReserved(NamedField.name)
        /\ NamedField.name = <<>> => result.err = OK
        /\ NamedField.name # <<>> /\ ~MatchesNamePattern(NamedField.name)
              => result.err = Err("invalid_name", NamedPath, NamedField.name)
        /\ IsReserved(NamedField.name)
              => result.err = Err("reserved_name", NamedPath, NamedField.name)

\* the name "RESET" in a then list was rejected as reserved
C24_Witness ==
    /\ Validated
    /\ NamedScope = "then"
    /\ NamedField.name = <<"R","E","S","E","T">>
    /\ result.err.code = "reserved_name"

-----------------------------------------------------------------------------
(* Methods: the caller holds no form (a nil *Form) or a form with some     *)
(* method, and appends top-level fields to it.                             *)

Methods ==
    { "", "GET", "POST", "PUT", "PATCH", "DELETE", "HEAD", "OPTIONS",
      "get", "Post", "pUT", "patch", "Delete", "head", "options",
      "TRACE", "trace", "CONNECT", "gets", " get" }

\* var form *lib.Form, or form := &lib.Form{Method: m}
MethodsInit ==
    /\ form \in { Nil } \cup { Ptr(Form("", "", m, <<>>)) : m \in Methods }
    /\ result = NoResult
    /\ pc = "built"
    /\ jsonSchema = Nil
    /\ converted = Nil

\* form.Fields = append(form.Fields, field): a text field with a valid or an
\* invalid name
AddTopLevelField ==
    /\ pc = "built"
    /\ form # Nil
    /\ Len(form[1].fields) < MaxTopLevel
    /\ \E name \in { <<"a">>, BadName } :
          form' = Ptr([form[1] EXCEPT
                         !.fields = Append(@, Field(name, FieldTypeText, Nil, <<>>, Nil, <<>>, Nil))])
    /\ UNCHANGED <<result, pc, jsonSchema, converted>>

MethodsNext == AddTopLevelField \/ Validate

SpecMethods == MethodsInit /\ [][MethodsNext]_vars

-----------------------------------------------------------------------------
(* C25 *)

\* the spellings of GET, POST, PUT, PATCH, DELETE, HEAD, OPTIONS in any case
\* that a caller of the model writes
VerbSpellings ==
    { "GET", "POST", "PUT", "PATCH", "DELETE", "HEAD", "OPTIONS",
      "get", "Post", "pUT", "patch", "Delete", "head", "options" }

\* C25: before examining any field, Validate rejects a nil form, then a form
\* with zero top-level fields, then a form whose method is non-empty and not
\* (case-insensitively) one of GET, POST, PUT, PATCH, DELETE, HEAD, OPTIONS;
\* an empty method, and a verb written in any case, is accepted, and the
\* fields are examined then.
C25_FormChecksComeFirst ==
    Validated =>
        IF form = Nil
            THEN result.err = Err("nil_form", NoPath, <<>>) /\ result.visited = <<>>
        ELSE IF form[1].fields = <<>>
            THEN result.err = Err("no_fields", NoPath, <<>>) /\ result.visited = <<>>
        ELSE IF form[1].method # "" /\ form[1].method \notin VerbSpellings
            THEN result.err = Err("invalid_method", NoPath, <<>>) /\ result.visited = <<>>
        ELSE /\ result.visited # <<>>
             /\ result.err.code \notin { "nil_form", "no_fields", "invalid_method" }
             /\ (\A i \in 1..Len(form[1].fields) : form[1].fields[i].name = <<"a">>)
                   /\ Len(form[1].fields) = 1
                   => result.err = OK

\* a form with the method "trace" whose first field has an invalid name was
\* rejected for its method, no field examined
C25_Witness ==
    /\ Validated
    /\ form # Nil
    /\ form[1].method = "trace"
    /\ Len(form[1].fields) >= 1
    /\ form[1].fields[1].name = BadName
    /\ result.err.code = "invalid_method"
    /\ result.visited = <<>>

-----------------------------------------------------------------------------
(* Validation keywords of one schema node: the decoded document is one     *)
(* schema, given as the root or as the property "n" of an object root      *)
(* (listed under required or not), and the decoder fills in its type, its  *)
(* const, its items and its validation keywords one at a time.             *)

NumericKeywords ==
    { "minLength", "maxLength", "minimum", "maximum", "exclusiveMinimum",
      "exclusiveMaximum", "multipleOf", "minItems", "maxItems" }

KeywordValues == { 1, 2 }

\* the validation keywords of a schema that are present
PresentKeywords(s) ==
    { k \in NumericKeywords : s[k] # Nil } \cup (IF s.pattern # "" THEN { "pattern" } ELSE {})

KeywordsInit ==
    /\ jsonSchema \in
          { Ptr(EmptySchema),
            Ptr(WithChild(EmptySchema, SchemaStep("prop", NodeKey), Ptr(EmptySchema))),
            Ptr(WithChild([EmptySchema EXCEPT !.required = << NodeKey >>],
                          SchemaStep("prop", NodeKey), Ptr(EmptySchema))) }
    /\ converted = NoConversion
    /\ pc = "decoded"
    /\ form = Nil
    /\ result = NoResult

\* "<keyword>": v
SetKeyword ==
    /\ pc = "decoded"
    /\ Cardinality(PresentKeywords(Node)) < MaxKeywords
    /\ \E k \in NumericKeywords \ PresentKeywords(Node) : \E v \in KeywordValues :
          jsonSchema' = WithNode([Node EXCEPT ![k] = Ptr(v)])
    /\ UNCHANGED <<form, result, pc, converted>>

\* "pattern": "p"
SetPattern ==
    /\ pc = "decoded"
    /\ Cardinality(PresentKeywords(Node)) < MaxKeywords
    /\ Node.pattern = ""
    /\ jsonSchema' = WithNode([Node EXCEPT !.pattern = "p"])
    /\ UNCHANGED <<form, result, pc, converted>>

KeywordsNext == SetType \/ SetConst \/ SetItems \/ SetKeyword \/ SetPattern \/ Convert

SpecKeywords == KeywordsInit /\ [][KeywordsNext]_vars

-----------------------------------------------------------------------------
(* C26 *)

\* the kind the type keyword gives the node is array: "type": "array", or
\* no type, no properties and items
ArrayKind(s) ==
    \/ s.type = TypeString("array")
    \/ s.type = TypeAbsent /\ s.properties = Nil /\ s.items # Nil

\* the node is a property listed under required by the root
NodeRequired == Wrapped /\ NodeKey \in Range(jsonSchema[1].required)

\* C26: if the resolved kind is array and items is present, the converted
\* field has exactly one child, named "item", which is the conversion of
\* items; separately minItems and maxItems, when present, are copied into
\* the field's Validation block, which is created if no other keyword had
\* produced one; an array field without items has no children.
C26_ArrayItemsAndBounds ==
    Converted /\ NodeConverted =>
        /\ NodeField.type = FieldTypeArray => ArrayKind(Node)
        /\ ArrayKind(Node) /\ Node.items # Nil
              => /\ Len(NodeField.fields) = 1
                 /\ NodeField.fields[1].name = <<"i", "t", "e", "m">>
                 /\ Ptr(NodeField.fields[1]) \in convertSchemaToField(ItemName, Node.items)
        /\ ArrayKind(Node) /\ Node.items = Nil => NodeField.fields = <<>>
        /\ ArrayKind(Node) /\ Node.minItems # Nil
              => NodeField.validation # Nil /\ NodeField.validation[1].minItems = Node.minItems
        /\ ArrayKind(Node) /\ Node.maxItems # Nil
              => NodeField.validation # Nil /\ NodeField.validation[1].maxItems = Node.maxItems
        /\ ArrayKind(Node) /\ ~NodeRequired /\ PresentKeywords(Node) # {}
              /\ PresentKeywords(Node) \subseteq { "minItems", "maxItems" }
              => NodeField.validation =
                    Ptr([EmptyValidation EXCEPT !.minItems = Node.minItems,
                                                !.maxItems = Node.maxItems])

\* an array node with items whose only validation keyword is maxItems: one
\* child "item" and a block made for maxItems
C26_Witness ==
    /\ Converted
    /\ NodeConverted
    /\ Node.type = TypeString("array")
    /\ Node.items # Nil
    /\ PresentKeywords(Node) = { "maxItems" }
    /\ ~NodeRequired
    /\ Len(NodeField.fields) = 1
    /\ NodeField.validation = Ptr([EmptyValidation EXCEPT !.maxItems = Node.maxItems])

-----------------------------------------------------------------------------
(* C27 *)

\* the keywords buildValidation reads
BlockKeywords ==
    { "minLength", "maxLength", "pattern", "minimum", "maximum", "exclusiveMinimum",
      "exclusiveMaximum", "multipleOf" }

\* the exclusive value when it is present, the inclusive one otherwise
Preferring(exclusive, inclusive) == IF exclusive # Nil THEN exclusive ELSE inclusive

\* C27: the Validation block built from a schema node copies minLength,
\* maxLength and pattern (with the fixed pattern-error message set exactly
\* when pattern is set), copies minimum / exclusiveMinimum onto min and
\* maximum / exclusiveMaximum onto max (the exclusive value winning when
\* both are present), and multipleOf onto step; when none of these keywords
\* is present the field's Validation is nil rather than an empty block,
\* unless required or, for an array, minItems / maxItems create it.
C27_ValidationFromKeywords ==
    Converted /\ NodeConverted =>
        /\ NodeField.validation = Nil
              <=> /\ PresentKeywords(Node) \cap BlockKeywords = {}
                  /\ ~NodeRequired
                  /\ ~(ArrayKind(Node) /\ (Node.minItems # Nil \/ Node.maxItems # Nil))
        /\ NodeField.validation # Nil
              => LET v == NodeField.validation[1]
                 IN /\ v.minLength = Node.minLength
                    /\ v.maxLength = Node.maxLength
                    /\ v.pattern = Node.pattern
                    /\ v.patternError = (IF Node.pattern # "" THEN "Invalid format" ELSE "")
                    /\ v.min = Preferring(Node.exclusiveMinimum, Node.minimum)
                    /\ v.max = Preferring(Node.exclusiveMaximum, Node.maximum)
                    /\ v.step = Node.multipleOf
                    /\ v.required = NodeRequired

\* a node with minimum 1 and exclusiveMinimum 2: min is 2
C27_Witness ==
    /\ Converted
    /\ NodeConverted
    /\ Node.minimum = Ptr(1)
    /\ Node.exclusiveMinimum = Ptr(2)
    /\ NodeField.validation # Nil
    /\ NodeField.validation[1].min = Ptr(2)

-----------------------------------------------------------------------------
(* Conditional keywords of one schema node: the decoded document is one    *)
(* schema, given as the root or as the property "n" of an object root, and *)
(* the decoder fills in its if, then and else keywords.                    *)

\* the keys of if.properties: the empty string included
ConditionKeys == { <<>>, <<"a">>, <<"b">> }

BranchSlots == { "then", "else" }

\* the values of a property of a branch: null, or a schema
BranchSchemas == { Nil, Ptr(StringSchema) }

\* the number of properties a branch declares, and of names it requires
BranchProperties(s, slot) == IF s[slot] = Nil THEN 0 ELSE Cardinality(DeclaredKeys(s[slot][1]))
BranchRequired(s, slot) == IF s[slot] = Nil THEN 0 ELSE Len(s[slot][1].required)

\* "if": {}
SetIfSchema ==
    /\ pc = "decoded"
    /\ Node.if = Nil
    /\ jsonSchema' = WithNode([Node EXCEPT !.if = Ptr(EmptySchema)])
    /\ UNCHANGED <<form, result, pc, converted>>

\* "if": {"properties": {}}
MakeIfProperties ==
    /\ pc = "decoded"
    /\ Node.if # Nil
    /\ Node.if[1].properties = Nil
    /\ jsonSchema' = WithNode([Node EXCEPT !.if = Ptr([Node.if[1] EXCEPT !.properties = Ptr(<<>>)])])
    /\ UNCHANGED <<form, result, pc, converted>>

\* "if": {"properties": {..., "<key>": {}}}
AddIfKey ==
    /\ pc = "decoded"
    /\ Node.if # Nil
    /\ Node.if[1].properties # Nil
    /\ \E key \in ConditionKeys \ DeclaredKeys(Node.if[1]) :
          jsonSchema' = WithNode([Node EXCEPT
                                    !.if = Ptr(WithChild(Node.if[1], SchemaStep("prop", key),
                                                         Ptr(EmptySchema)))])
    /\ UNCHANGED <<form, result, pc, converted>>

\* "then": {} or "else": {}
SetBranch ==
    /\ pc = "decoded"
    /\ \E slot \in BranchSlots :
          /\ Node[slot] = Nil
          /\ jsonSchema' = WithNode([Node EXCEPT ![slot] = Ptr(EmptySchema)])
    /\ UNCHANGED <<form, result, pc, converted>>

\* "then": {"properties": {..., "<key>": null}} or {..., "<key>": {...}}
DeclareInBranch ==
    /\ pc = "decoded"
    /\ BranchProperties(Node, "then") + BranchProperties(Node, "else") < MaxBranch
    /\ \E slot \in BranchSlots :
          /\ Node[slot] # Nil
          /\ \E key \in PropertyKeys \ DeclaredKeys(Node[slot][1]) :
             \E child \in BranchSchemas :
                jsonSchema' = WithNode([Node EXCEPT
                                          ![slot] = Ptr(WithChild(Node[slot][1],
                                                                  SchemaStep("prop", key), child))])
    /\ UNCHANGED <<form, result, pc, converted>>

\* "then": {"required": [..., "<name>"]}
RequireInBranch ==
    /\ pc = "decoded"
    /\ BranchRequired(Node, "then") + BranchRequired(Node, "else") < MaxRequired
    /\ \E slot \in BranchSlots :
          /\ Node[slot] # Nil
          /\ \E name \in RequiredNames \ Range(Node[slot][1].required) :
                jsonSchema' = WithNode([Node EXCEPT
                                          ![slot] = Ptr([Node[slot][1] EXCEPT
                                                           !.required = Append(@, name)])])
    /\ UNCHANGED <<form, result, pc, converted>>

ConditionalNext ==
    \/ SetIfSchema \/ MakeIfProperties \/ AddIfKey \/ SetBranch \/ DeclareInBranch
    \/ RequireInBranch \/ Convert

SpecConditional == KindsInit /\ [][ConditionalNext]_vars

-----------------------------------------------------------------------------
(* C28 *)

\* the keys of if.properties of a schema
IfKeys(s) == IF s.if = Nil THEN {} ELSE DeclaredKeys(s.if[1])

\* the list is a conversion of the properties of the branch: one field per
\* non-null property, required exactly when the branch lists its name
ConvertsBranch(list, branch) ==
    IF branch = Nil THEN list = <<>>
    ELSE /\ Len(list) = Cardinality(NonNullKeys(branch[1]))
         /\ FieldNames(list) = NonNullKeys(branch[1])
         /\ \A i \in 1..Len(list) :
               /\ list[i].type = FieldTypeText
               /\ (list[i].validation # Nil /\ list[i].validation[1].required)
                     <=> list[i].name \in Range(branch[1].required)

\* C28: the converter attaches a conditional to a field only when the schema
\* node has if and a condition name could be extracted from if.properties;
\* when if is absent, or if has no properties, the field has no conditional
\* and conversion still succeeds, even if then / else are present. When
\* attached, the then and else lists are the independent conversions of
\* then.properties and else.properties (each possibly empty) with their own
\* required lists.
C28_ConditionalOnlyWithCondition ==
    Converted /\ NodeConverted =>
        /\ converted.err = ""
        /\ NodeField.conditional # Nil
              => /\ Node.if # Nil
                 /\ NodeField.conditional[1].condition \in IfKeys(Node) \ { <<>> }
                 /\ ConvertsBranch(NodeField.conditional[1].then, Node.then)
                 /\ ConvertsBranch(NodeField.conditional[1].else, Node.else)
        /\ IfKeys(Node) = {} => NodeField.conditional = Nil
        /\ IfKeys(Node) # {} /\ <<>> \notin IfKeys(Node) => NodeField.conditional # Nil

\* the conditional was attached; then and else both declare "a", then alone
\* requires it
C28_Witness ==
    /\ Converted
    /\ NodeConverted
    /\ NodeField.conditional # Nil
    /\ Len(NodeField.conditional[1].then) = 1
    /\ Len(NodeField.conditional[1].else) = 1
    /\ NodeField.conditional[1].then[1].name = NodeField.conditional[1].else[1].name
    /\ NodeField.conditional[1].then[1].validation # Nil
    /\ NodeField.conditional[1].else[1].validation = Nil

-----------------------------------------------------------------------------
(* C29 *)

\* the names registered in the lists around the field at p, other than its
\* own list, when the walk enters that list
OuterNames(p) == UNION { RegisteredAt(SubSeq(p, 1, k)) : k \in 1..(Len(p) - 1) }

\* the conditional of the field at p names a field of an outer scope and no
\* field registered in its own list
NamesOuterFieldOnly(p) ==
    /\ Len(p) >= 2
    /\ HasConditional(p)
    /\ ConditionOf(p) \in OuterNames(p)
    /\ ConditionOf(p) \notin RegisteredAt(p)

\* C29: a conditional that belongs to a field inside a then list, an else
\* list, or an object / array's children is resolved only against the name
\* table of that inner list: a condition that names a field of the outer
\* scope, and no field registered in the inner list, makes Validate fail
\* with 'references non-existent field' at that field, even though the
\* outer field was registered before the walk entered the inner list.
C29_InnerScopeOnly ==
    Validated =>
        \A p \in Paths :
            NamesOuterFieldOnly(p)
                => /\ result.err # OK
                   /\ Reached(p) /\ ~LaterDuplicate(p)
                        => /\ result.err = Err("missing_condition_field", p, ConditionOf(p))
                           /\ ConditionOf(p) \in result.names \/ Len(p) > 2

\* a field in a then list whose condition names the top-level field that
\* carries the list was rejected
C29_Witness ==
    /\ Validated
    /\ Len(result.err.path) = 2
    /\ result.err.path[2].seg = "then"
    /\ NamesOuterFieldOnly(result.err.path)
    /\ result.err.code = "missing_condition_field"
    /\ result.err.arg \in result.names

-----------------------------------------------------------------------------
(* Conversion followed by validation: the caller converts the decoded      *)
(* document and validates the form it got, without touching it.            *)

\* err = form.Validate(), on the form ConvertSchemaToForm returned
ValidateConverted ==
    /\ pc = "converted"
    /\ converted.form # Nil
    /\ form' = converted.form
    /\ result' = FormValidate(converted.form)
    /\ pc' = "validated"
    /\ UNCHANGED <<jsonSchema, converted>>

RoundTripNext == AddSchema \/ Convert \/ ValidateConverted

SpecRoundTrip == ConvertInit /\ [][RoundTripNext]_vars

-----------------------------------------------------------------------------
(* C30 *)

RECURSIVE DistinctNamesBelow(_)
\* the names of a list are pairwise distinct, and so are those of every
\* list below it
DistinctNamesBelow(fields) ==
    /\ \A i, j \in 1..Len(fields) : i < j => fields[i].name # fields[j].name
    /\ \A i \in 1..Len(fields) :
          /\ DistinctNamesBelow(fields[i].fields)
          /\ fields[i].conditional # Nil
                => /\ DistinctNamesBelow(fields[i].conditional[1].then)
                   /\ DistinctNamesBelow(fields[i].conditional[1].else)

\* C30: every field list produced by the converter (top-level list, object
\* children, the array's single "item" child, then list, else list) has
\* pairwise distinct names; hence Validate applied to an unmodified
\* converter output never returns a duplicate-field-name error.
C30_ConvertedNamesDistinct ==
    /\ Converted => DistinctNamesBelow(Out)
    /\ Validated => /\ form = converted.form
                    /\ DistinctNamesBelow(Top)
                    /\ result.err.code # "duplicate_name"

\* a converted form with two top-level fields, one name used in a list and
\* in the list below it, was validated and accepted
C30_Witness ==
    /\ Validated
    /\ form = converted.form
    /\ Len(Top) = 2
    /\ \E p, q \in Paths : SameNameElsewhere(p, q) /\ IsPrefix(p, q)
    /\ result.err = OK

====
